---- MODULE Spec2Model ----
(***************************************************************************)
(* Grammar production registry of the ECMAScript syntax-diagram app: the   *)
(* construct adapter callOrNew, the two editions' rule registries          *)
(* (ES2025, ES5.1), their section indexes, the EBNF definition table and   *)
(* the exported accessors, modelled from src/.../es2025Grammar.ts.         *)
(*                                                                         *)
(* JavaScript values are records with a field "type":                      *)
(*   [type |-> "throw", error |-> e]   an abrupt completion (exception e)  *)
(*   [type |-> "undefined"]            the value undefined                 *)
(*   [type |-> "thunk", ...]           an arrow function () => body        *)
(*   [type |-> P, items |-> args]      the object primitive P built from   *)
(*                                     the argument list args              *)
(* Strings and numbers are TLA+ strings and integers.  A backquote or a     *)
(* character outside ASCII in a source string is written \uXXXX inside the *)
(* TLA+ string.                                                            *)
(***************************************************************************)
EXTENDS Integers, Sequences, FiniteSets, TLC

VARIABLES
    build,      \* how the linked library exports its primitives
    loaded,     \* the modules evaluated so far
    rules,      \* rules[e]: the Map `rules` of edition e's module
    sections,   \* sections[e]: SECTION_ORDER, SECTION_TITLES, SECTION_RULES of e
    ebnf,       \* the object EBNF_DEFINITIONS
    last,       \* the most recent operation with its arguments and outcome
    thunkRuns,  \* how many times a registered arrow function has been invoked
    first,      \* the earliest createRuleDiagram call made for the probed name
    probe,      \* the rule the observed caller asks for repeatedly
    adapter,    \* the most recent direct callOrNew invocation
    app         \* the mounted App component: its edition and its React state

vars == <<build, loaded, rules, sections, ebnf, last, thunkRuns, first, probe, adapter, app>>

(***************************************************************************)
(* Errors and completions                                                  *)
(***************************************************************************)
Undefined == [type |-> "undefined"]

Throw(e) == [type |-> "throw", error |-> e]

IsThrow(o) == o.type = "throw"

Error(class, message) == [class |-> class, message |-> message]

\* e instanceof TypeError
InstanceOfTypeError(e) == e.class = "TypeError"

\* /without 'new'/.test(message): the message has the substring without 'new'
WithoutNewPattern == "without 'new'"

TestWithoutNew(message) ==
    \E i \in 1..(Len(message) - Len(WithoutNewPattern) + 1) :
        SubSeq(message, i, i + Len(WithoutNewPattern) - 1) = WithoutNewPattern

(***************************************************************************)
(* The primitives of @prantlf/railroad-diagrams (RR.Diagram, ...).  The    *)
(* package has shipped builds whose primitives are factory functions and   *)
(* builds whose primitives are class constructors; an export a build lacks *)
(* is undefined.                                                           *)
(***************************************************************************)
Primitives ==
    {"Diagram", "Sequence", "Choice", "Optional", "OneOrMore", "ZeroOrMore",
     "Terminal", "NonTerminal", "Stack", "Comment"}

WorkingBuilds == {"function", "class"}

Builds == WorkingBuilds \cup {"missing"}

\* the exports that the build called "lacking" does not have; its other
\* primitives are factory functions
LackedExports == {"Optional"}

\* RR.p: the export p of the package, as the build in use provides it
RR(p) ==
    [kind |-> "RR", name |-> p,
     build |-> IF build = "lacking"
               THEN IF p \in LackedExports THEN "missing" ELSE "function"
               ELSE build]

ClassConstructorMessage(p) ==
    "Class constructor " \o p \o " cannot be invoked without 'new'"

\* Ctor(...args): the plain call
Call(Ctor, args) ==
    IF Ctor.kind = "RR"
    THEN CASE Ctor.build = "function" -> [type |-> Ctor.name, items |-> args]
           [] Ctor.build = "class" ->
                Throw(Error("TypeError", ClassConstructorMessage(Ctor.name)))
           [] OTHER -> Throw(Error("TypeError", "Ctor is not a function"))
    ELSE Ctor.onCall

\* new Ctor(...args): the instantiation
New(Ctor, args) ==
    IF Ctor.kind = "RR"
    THEN CASE Ctor.build \in WorkingBuilds -> [type |-> Ctor.name, items |-> args]
           [] OTHER -> Throw(Error("TypeError", "Ctor is not a constructor"))
    ELSE Ctor.onNew

(***************************************************************************)
(* callOrNew(Ctor, ...args)                                                *)
(*   outcome:  what the invocation returns or throws                       *)
(*   attempts: the invocations of Ctor it made, in order                   *)
(***************************************************************************)
\* Mutant: retries on every TypeError, whatever its message.
callOrNewAnyTypeError(Ctor, args) ==
    LET r == Call(Ctor, args) IN
    IF IsThrow(r)
    THEN IF InstanceOfTypeError(r.error)
         THEN [outcome |-> New(Ctor, args), attempts |-> <<"call", "new">>]
         ELSE [outcome |-> r, attempts |-> <<"call">>]
    ELSE [outcome |-> r, attempts |-> <<"call">>]

\* Mutant: never retries.
callOrNewNoRetry(Ctor, args) ==
    [outcome |-> Call(Ctor, args), attempts |-> <<"call">>]

\* Mutant: a failed instantiation is retried once more.
callOrNewRetryTwice(Ctor, args) ==
    LET r == Call(Ctor, args) IN
    IF IsThrow(r)
    THEN IF InstanceOfTypeError(r.error) /\ TestWithoutNew(r.error.message)
         THEN LET n == New(Ctor, args) IN
              IF IsThrow(n)
              THEN [outcome |-> New(Ctor, args),
                    attempts |-> <<"call", "new", "new">>]
              ELSE [outcome |-> n, attempts |-> <<"call", "new">>]
         ELSE [outcome |-> r, attempts |-> <<"call">>]
    ELSE [outcome |-> r, attempts |-> <<"call">>]

callOrNew(Ctor, args) ==
    LET r == Call(Ctor, args) IN
    IF IsThrow(r)
    THEN IF InstanceOfTypeError(r.error) /\ TestWithoutNew(r.error.message)
         THEN [outcome |-> New(Ctor, args), attempts |-> <<"call", "new">>]
         ELSE [outcome |-> r, attempts |-> <<"call">>]
    ELSE [outcome |-> r, attempts |-> <<"call">>]

(***************************************************************************)
(* Callees and argument lists a direct caller of callOrNew may pass        *)
(***************************************************************************)
ErrorClasses == {"TypeError", "RangeError", "Error"}

Messages ==
    {ClassConstructorMessage("Foo"),
     "without 'new'",
     "cannot be invoked without new",
     "Without 'New'",
     "Foo is not a function",
     ""}

Errors == {Error(c, m) : c \in ErrorClasses, m \in Messages}

CallOutcomes == {[type |-> "called"]} \cup {Throw(e) : e \in Errors}

NewOutcomes ==
    {[type |-> "constructed"],
     Throw(Error("Error", "constructor failed")),
     Throw(Error("TypeError", ClassConstructorMessage("Foo")))}

Callees ==
    {[kind |-> "fn", onCall |-> c, onNew |-> n] :
        c \in CallOutcomes, n \in NewOutcomes}
    \cup {[kind |-> "RR", name |-> p, build |-> b] :
        p \in Primitives, b \in Builds}

ArgLists == {<< >>, <<"x">>, <<0, "a", "b">>}

NoInvocation == [type |-> "none"]

\* A caller invokes callOrNew(Ctor, ...args).
CallOrNew(Ctor, args) ==
    /\ adapter' = [Ctor |-> Ctor, args |-> args,
                   plain |-> Call(Ctor, args),
                   result |-> callOrNew(Ctor, args)]
    /\ UNCHANGED <<build, loaded, rules, sections, ebnf, last, thunkRuns, first, probe, app>>

(***************************************************************************)
(* Expressions of the rule bodies.  A call f(a1, ..., an) written in a     *)
(* body is the record [call |-> f, args |-> <<a1, ..., an>>]; it is        *)
(* evaluated when the arrow function holding it is invoked (Evaluate).     *)
(***************************************************************************)
Diagram(a) == [call |-> "Diagram", args |-> a]

Sequence(a) == [call |-> "Sequence", args |-> a]

Choice(a) == [call |-> "Choice", args |-> a]

Optional(a) == [call |-> "Optional", args |-> a]

OneOrMore(a) == [call |-> "OneOrMore", args |-> a]

ZeroOrMore(a) == [call |-> "ZeroOrMore", args |-> a]

Terminal(a) == [call |-> "Terminal", args |-> a]

NonTerminal(a) == [call |-> "NonTerminal", args |-> a]

Stack(a) == [call |-> "Stack", args |-> a]

Comment(a) == [call |-> "Comment", args |-> a]

T(s) == [call |-> "T", args |-> <<s>>]

\* Mutant: NT builds a Terminal, const NT = (s) => Terminal(s).
NTAsTerminal(s) == [call |-> "T", args |-> <<s>>]

NT(s) == [call |-> "NT", args |-> <<s>>]

chain(base, ops) == [call |-> "chain", args |-> <<base, ops>>]

\* the positions of a call's arguments that are expressions themselves (the
\* others are string, number and array literals)
ExpressionArgs(x) ==
    CASE x.call \in {"T", "NT", "chain", "Terminal", "NonTerminal", "Comment"} -> {}
      [] x.call = "Choice" -> 2..Len(x.args)
      [] OTHER -> 1..Len(x.args)

\* the names an expression refers to: the s of every NT(s) and the base of
\* every chain(base, ops) in it
RECURSIVE References(_)
References(x) ==
    CASE x.call \in {"NT", "NonTerminal", "chain"} -> {x.args[1]}
      [] OTHER -> UNION {References(x.args[i]) : i \in ExpressionArgs(x)}

\* the first abrupt completion among the evaluated arguments, if any
FirstThrow(values, positions) ==
    IF \E i \in positions : IsThrow(values[i])
    THEN values[CHOOSE i \in positions :
                  /\ IsThrow(values[i])
                  /\ \A j \in positions : j < i => ~IsThrow(values[j])]
    ELSE Undefined

\* const P = (...a) => callOrNew(RR.P, ...a)
Wrapper(p, a) == callOrNew(RR(p), a).outcome

\* Mutant: the default alternative of the operator choice is ops.length.
ChainBodyDefaultPastEnd(base, ops) ==
    Sequence(<<
        NT(base),
        ZeroOrMore(<<
            Sequence(<<
                Choice(<<Len(ops)>> \o [i \in 1..Len(ops) |-> T(ops[i])]),
                NT(base)>>)>>)>>)

\* the body of function chain(base, ops); ops.map(T) is one T(op) per operator
ChainBody(base, ops) ==
    Sequence(<<
        NT(base),
        ZeroOrMore(<<
            Sequence(<<
                Choice(<<0>> \o [i \in 1..Len(ops) |-> T(ops[i])]),
                NT(base)>>)>>)>>)

\* Evaluation of an expression: the arguments first, left to right, an
\* argument that throws ending the evaluation; then the call itself.
RECURSIVE Evaluate(_)
Evaluate(x) ==
    LET values == [i \in 1..Len(x.args) |->
                      IF i \in ExpressionArgs(x) THEN Evaluate(x.args[i])
                      ELSE x.args[i]]
        thrown == FirstThrow(values, ExpressionArgs(x))
    IN
    IF IsThrow(thrown) THEN thrown
    ELSE CASE x.call = "T" -> Wrapper("Terminal", values)
           [] x.call = "NT" -> Wrapper("NonTerminal", values)
           [] x.call = "chain" -> Evaluate(ChainBody(values[1], values[2]))
           [] OTHER -> Wrapper(x.call, values)

(***************************************************************************)
(* The rules.set statements of the two editions, in source order, and the  *)
(* body of each registered arrow function                                   *)
(***************************************************************************)
\* rules.set("<name>", ...) of the ES2025 module, lines 48-2245
RuleStatementsES2025 ==
    <<
    "SourceCharacter", "InputElementDiv", "InputElementRegExp",
    "InputElementRegExpOrTemplateTail", "InputElementTemplateTail",
    "WhiteSpace", "LineTerminator", "LineTerminatorSequence", "Comment",
    "MultiLineComment", "SingleLineComment", "HashbangComment", "CommonToken",
    "PrivateIdentifier", "IdentifierName", "IdentifierStart",
    "IdentifierPart", "IdentifierStartChar", "IdentifierPartChar",
    "UnicodeIDStart", "UnicodeIDContinue", "ReservedWord", "Punctuator",
    "OptionalChainingPunctuator", "DivPunctuator", "RightBracePunctuator",
    "NullLiteral", "BooleanLiteral", "NumericLiteral", "DecimalLiteral",
    "DecimalIntegerLiteral", "DecimalDigits", "DecimalDigit", "NonZeroDigit",
    "NumericLiteralSeparator", "ExponentPart", "ExponentIndicator",
    "SignedInteger", "BigIntLiteralSuffix", "DecimalBigIntegerLiteral",
    "NonDecimalIntegerLiteral", "BinaryIntegerLiteral", "BinaryDigits",
    "BinaryDigit", "OctalIntegerLiteral", "OctalDigits", "OctalDigit",
    "HexIntegerLiteral", "HexDigits", "HexDigit", "LegacyOctalIntegerLiteral",
    "StringLiteral", "DoubleStringCharacters", "SingleStringCharacters",
    "DoubleStringCharacter", "SingleStringCharacter", "LineContinuation",
    "EscapeSequence", "CharacterEscapeSequence", "SingleEscapeCharacter",
    "HexEscapeSequence", "UnicodeEscapeSequence", "Hex4Digits",
    "RegularExpressionLiteral", "RegularExpressionBody",
    "RegularExpressionChars", "RegularExpressionFlags", "Template",
    "NoSubstitutionTemplate", "TemplateHead", "TemplateSubstitutionTail",
    "TemplateMiddle", "TemplateTail", "TemplateCharacters",
    "IdentifierReference", "BindingIdentifier", "LabelIdentifier",
    "Identifier", "PrimaryExpression",
    "CoverParenthesizedExpressionAndArrowParameterList",
    "ParenthesizedExpression", "Literal", "ArrayLiteral", "ElementList",
    "Elision", "SpreadElement", "ObjectLiteral", "PropertyDefinitionList",
    "PropertyDefinition", "PropertyName", "LiteralPropertyName",
    "ComputedPropertyName", "CoverInitializedName", "Initializer",
    "TemplateLiteral", "SubstitutionTemplate", "TemplateSpans",
    "TemplateMiddleList", "MemberExpression", "SuperProperty", "MetaProperty",
    "NewTarget", "ImportMeta", "NewExpression", "CallExpression", "SuperCall",
    "ImportCall", "Arguments", "ArgumentList", "OptionalExpression",
    "OptionalChain", "LeftHandSideExpression", "UpdateExpression",
    "UnaryExpression", "ExponentiationExpression", "MultiplicativeExpression",
    "MultiplicativeOperator", "AdditiveExpression", "ShiftExpression",
    "RelationalExpression", "EqualityExpression", "BitwiseANDExpression",
    "BitwiseXORExpression", "BitwiseORExpression", "LogicalANDExpression",
    "LogicalORExpression", "CoalesceExpression", "CoalesceExpressionHead",
    "ShortCircuitExpression", "ConditionalExpression", "AssignmentExpression",
    "AssignmentOperator", "AssignmentPattern", "ObjectAssignmentPattern",
    "ArrayAssignmentPattern", "Expression", "Statement", "Declaration",
    "HoistableDeclaration", "BreakableStatement", "BlockStatement", "Block",
    "StatementList", "StatementListItem", "LexicalDeclaration", "LetOrConst",
    "BindingList", "LexicalBinding", "VariableStatement",
    "VariableDeclarationList", "VariableDeclaration", "BindingPattern",
    "ObjectBindingPattern", "ArrayBindingPattern", "BindingRestProperty",
    "BindingPropertyList", "BindingElementList", "BindingElisionElement",
    "BindingProperty", "BindingElement", "SingleNameBinding",
    "BindingRestElement", "EmptyStatement", "ExpressionStatement",
    "IfStatement", "IterationStatement", "DoWhileStatement", "WhileStatement",
    "ForStatement", "ForInOfStatement", "ForDeclaration", "ForBinding",
    "ContinueStatement", "BreakStatement", "ReturnStatement", "WithStatement",
    "SwitchStatement", "CaseBlock", "CaseClauses", "CaseClause",
    "DefaultClause", "LabelledStatement", "LabelledItem", "ThrowStatement",
    "TryStatement", "Catch", "Finally", "CatchParameter", "DebuggerStatement",
    "UniqueFormalParameters", "FormalParameters", "FormalParameterList",
    "FunctionRestParameter", "FormalParameter", "FunctionDeclaration",
    "FunctionExpression", "FunctionBody", "FunctionStatementList",
    "ArrowFunction", "ArrowParameters", "ConciseBody", "ExpressionBody",
    "ArrowFormalParameters", "AsyncArrowFunction", "AsyncConciseBody",
    "AsyncArrowBindingIdentifier", "CoverCallExpressionAndAsyncArrowHead",
    "AsyncArrowHead", "MethodDefinition", "PropertySetParameterList",
    "GeneratorDeclaration", "GeneratorExpression", "GeneratorMethod",
    "GeneratorBody", "YieldExpression", "AsyncGeneratorDeclaration",
    "AsyncGeneratorExpression", "AsyncGeneratorMethod", "AsyncGeneratorBody",
    "AsyncFunctionDeclaration", "AsyncFunctionExpression", "AsyncMethod",
    "AsyncFunctionBody", "AwaitExpression", "ClassDeclaration",
    "ClassExpression", "ClassTail", "ClassHeritage", "ClassBody",
    "ClassElementList", "ClassElement", "FieldDefinition", "ClassElementName",
    "ClassStaticBlock", "ClassStaticBlockBody",
    "ClassStaticBlockStatementList", "Script", "ScriptBody", "Module",
    "ModuleBody", "ModuleItemList", "ModuleItem", "ModuleExportName",
    "ImportDeclaration", "ImportClause", "ImportedDefaultBinding",
    "NameSpaceImport", "NamedImports", "FromClause", "ImportsList",
    "ImportSpecifier", "ModuleSpecifier", "ImportedBinding", "WithClause",
    "WithEntries", "AttributeKey", "ExportDeclaration", "ExportFromClause",
    "NamedExports", "ExportsList", "ExportSpecifier"
    >>

\* rules.set("<name>", ...) of the ES5.1 module, lines 2605-3770
RuleStatementsES5 ==
    <<
    "SourceCharacter", "InputElementDiv", "InputElementRegExp", "WhiteSpace",
    "LineTerminator", "LineTerminatorSequence", "Comment", "MultiLineComment",
    "MultiLineCommentChars", "PostAsteriskCommentChars",
    "MultiLineNotAsteriskChar", "MultiLineNotForwardSlashOrAsteriskChar",
    "SingleLineComment", "SingleLineCommentChars", "SingleLineCommentChar",
    "Token", "Identifier", "IdentifierName", "IdentifierStart",
    "IdentifierPart", "UnicodeLetter", "UnicodeCombiningMark", "UnicodeDigit",
    "UnicodeConnectorPunctuation", "ReservedWord", "Keyword",
    "FutureReservedWord", "Punctuator", "DivPunctuator", "Literal",
    "NullLiteral", "BooleanLiteral", "NumericLiteral", "DecimalLiteral",
    "DecimalIntegerLiteral", "DecimalDigits", "DecimalDigit", "NonZeroDigit",
    "ExponentPart", "ExponentIndicator", "SignedInteger", "HexIntegerLiteral",
    "HexDigit", "StringLiteral", "DoubleStringCharacters",
    "SingleStringCharacters", "DoubleStringCharacter",
    "SingleStringCharacter", "LineContinuation", "EscapeSequence",
    "CharacterEscapeSequence", "SingleEscapeCharacter", "NonEscapeCharacter",
    "EscapeCharacter", "HexEscapeSequence", "UnicodeEscapeSequence",
    "RegularExpressionLiteral", "RegularExpressionBody",
    "RegularExpressionChars", "RegularExpressionFirstChar",
    "RegularExpressionChar", "RegularExpressionBackslashSequence",
    "RegularExpressionNonTerminator", "RegularExpressionClass",
    "RegularExpressionClassChars", "RegularExpressionClassChar",
    "RegularExpressionFlags", "PrimaryExpression", "ArrayLiteral",
    "ElementList", "Elision", "ObjectLiteral", "PropertyNameAndValueList",
    "PropertyAssignment", "PropertyName", "PropertySetParameterList",
    "MemberExpression", "NewExpression", "CallExpression", "Arguments",
    "ArgumentList", "LeftHandSideExpression", "PostfixExpression",
    "UnaryExpression", "MultiplicativeExpression", "AdditiveExpression",
    "ShiftExpression", "RelationalExpression", "RelationalExpressionNoIn",
    "EqualityExpression", "EqualityExpressionNoIn", "BitwiseANDExpression",
    "BitwiseANDExpressionNoIn", "BitwiseXORExpression",
    "BitwiseXORExpressionNoIn", "BitwiseORExpression",
    "BitwiseORExpressionNoIn", "LogicalANDExpression",
    "LogicalANDExpressionNoIn", "LogicalORExpression",
    "LogicalORExpressionNoIn", "ConditionalExpression",
    "ConditionalExpressionNoIn", "AssignmentExpression",
    "AssignmentExpressionNoIn", "AssignmentOperator", "Expression",
    "ExpressionNoIn", "Statement", "Block", "StatementList",
    "VariableStatement", "VariableDeclarationList",
    "VariableDeclarationListNoIn", "VariableDeclaration",
    "VariableDeclarationNoIn", "Initialiser", "InitialiserNoIn",
    "EmptyStatement", "ExpressionStatement", "IfStatement",
    "IterationStatement", "ContinueStatement", "BreakStatement",
    "ReturnStatement", "WithStatement", "SwitchStatement", "CaseBlock",
    "CaseClauses", "CaseClause", "DefaultClause", "LabelledStatement",
    "ThrowStatement", "TryStatement", "Catch", "Finally", "DebuggerStatement",
    "FunctionDeclaration", "FunctionExpression", "FormalParameterList",
    "FunctionBody", "Program", "SourceElements", "SourceElement"
    >>

\* () => Diagram(...) of each ES2025 rule
BodyES2025(name) ==
    CASE name = "SourceCharacter" ->
        Diagram(<<Comment(<<"any Unicode code point">>)>>)
      [] name = "InputElementDiv" ->
        Diagram(<<Choice(<<0, NT("WhiteSpace"), NT("LineTerminator"), NT("Comment"), NT("CommonToken"), NT("DivPunctuator"), NT("RightBracePunctuator")>>)>>)
      [] name = "InputElementRegExp" ->
        Diagram(<<Choice(<<0, NT("WhiteSpace"), NT("LineTerminator"), NT("Comment"), NT("CommonToken"), NT("RightBracePunctuator"), NT("RegularExpressionLiteral")>>)>>)
      [] name = "InputElementRegExpOrTemplateTail" ->
        Diagram(<<Choice(<<0, NT("WhiteSpace"), NT("LineTerminator"), NT("Comment"), NT("CommonToken"), NT("RegularExpressionLiteral"), NT("TemplateSubstitutionTail")>>)>>)
      [] name = "InputElementTemplateTail" ->
        Diagram(<<Choice(<<0, NT("WhiteSpace"), NT("LineTerminator"), NT("Comment"), NT("CommonToken"), NT("DivPunctuator"), NT("TemplateSubstitutionTail")>>)>>)
      [] name = "WhiteSpace" ->
        Diagram(<<Choice(<<0, T("<TAB>"), T("<VT>"), T("<FF>"), T("<ZWNBSP>"), T("<USP>")>>)>>)
      [] name = "LineTerminator" ->
        Diagram(<<Choice(<<0, T("<LF>"), T("<CR>"), T("<LS>"), T("<PS>")>>)>>)
      [] name = "LineTerminatorSequence" ->
        Diagram(<<Choice(<<0, T("<LF>"), Sequence(<<T("<CR>"), Comment(<<"[lookahead \\u2260 <LF>]">>)>>), T("<LS>"), T("<PS>"), Sequence(<<T("<CR>"), T("<LF>")>>)>>)>>)
      [] name = "Comment" ->
        Diagram(<<Choice(<<0, NT("MultiLineComment"), NT("SingleLineComment")>>)>>)
      [] name = "MultiLineComment" ->
        Diagram(<<Sequence(<<T("/*"), Optional(<<NT("MultiLineCommentChars")>>), T("*/")>>)>>)
      [] name = "SingleLineComment" ->
        Diagram(<<Sequence(<<T("//"), Optional(<<NT("SingleLineCommentChars")>>)>>)>>)
      [] name = "HashbangComment" ->
        Diagram(<<Sequence(<<T("#!"), Optional(<<NT("SingleLineCommentChars")>>)>>)>>)
      [] name = "CommonToken" ->
        Diagram(<<Choice(<<0, NT("IdentifierName"), NT("PrivateIdentifier"), NT("Punctuator"), NT("NumericLiteral"), NT("StringLiteral"), NT("Template")>>)>>)
      [] name = "PrivateIdentifier" ->
        Diagram(<<Sequence(<<T("#"), NT("IdentifierName")>>)>>)
      [] name = "IdentifierName" ->
        Diagram(<<Sequence(<<NT("IdentifierStart"), ZeroOrMore(<<NT("IdentifierPart")>>)>>)>>)
      [] name = "IdentifierStart" ->
        Diagram(<<Choice(<<0, NT("IdentifierStartChar"), Sequence(<<T("\\"), NT("UnicodeEscapeSequence")>>)>>)>>)
      [] name = "IdentifierPart" ->
        Diagram(<<Choice(<<0, NT("IdentifierPartChar"), Sequence(<<T("\\"), NT("UnicodeEscapeSequence")>>)>>)>>)
      [] name = "IdentifierStartChar" ->
        Diagram(<<Choice(<<0, NT("UnicodeIDStart"), T("$"), T("_")>>)>>)
      [] name = "IdentifierPartChar" ->
        Diagram(<<Choice(<<0, NT("UnicodeIDContinue"), T("$")>>)>>)
      [] name = "UnicodeIDStart" ->
        Diagram(<<Comment(<<"any Unicode code point with property \"ID_Start\"">>)>>)
      [] name = "UnicodeIDContinue" ->
        Diagram(<<Comment(<<"any Unicode code point with property \"ID_Continue\"">>)>>)
      [] name = "ReservedWord" ->
        Diagram(<<Choice(<<0, T("await"), T("break"), T("case"), T("catch"), T("class"), T("const"), T("continue"), T("debugger"), T("default"), T("delete"), T("do"), T("else"), T("enum"), T("export"), T("extends"), T("false"), T("finally"), T("for"), T("function"), T("if"), T("import"), T("in"), T("instanceof"), T("new"), T("null"), T("return"), T("super"), T("switch"), T("this"), T("throw"), T("true"), T("try"), T("typeof"), T("var"), T("void"), T("while"), T("with"), T("yield")>>)>>)
      [] name = "Punctuator" ->
        Diagram(<<Choice(<<0, NT("OptionalChainingPunctuator"), NT("OtherPunctuator")>>)>>)
      [] name = "OptionalChainingPunctuator" ->
        Diagram(<<Sequence(<<T("?."), Comment(<<"[lookahead \\u2209 DecimalDigit]">>)>>)>>)
      [] name = "DivPunctuator" ->
        Diagram(<<Choice(<<0, T("/"), T("/=")>>)>>)
      [] name = "RightBracePunctuator" ->
        Diagram(<<T("}")>>)
      [] name = "NullLiteral" ->
        Diagram(<<T("null")>>)
      [] name = "BooleanLiteral" ->
        Diagram(<<Choice(<<0, T("true"), T("false")>>)>>)
      [] name = "NumericLiteral" ->
        Diagram(<<Choice(<<0, NT("DecimalLiteral"), NT("DecimalBigIntegerLiteral"), NT("NonDecimalIntegerLiteral"), Sequence(<<NT("NonDecimalIntegerLiteral"), NT("BigIntLiteralSuffix")>>), NT("LegacyOctalIntegerLiteral")>>)>>)
      [] name = "DecimalLiteral" ->
        Diagram(<<Choice(<<0, Sequence(<<NT("DecimalIntegerLiteral"), T("."), Optional(<<NT("DecimalDigits")>>), Optional(<<NT("ExponentPart")>>)>>), Sequence(<<T("."), NT("DecimalDigits"), Optional(<<NT("ExponentPart")>>)>>), Sequence(<<NT("DecimalIntegerLiteral"), Optional(<<NT("ExponentPart")>>)>>)>>)>>)
      [] name = "DecimalIntegerLiteral" ->
        Diagram(<<Choice(<<0, T("0"), NT("NonZeroDigit"), Sequence(<<NT("NonZeroDigit"), Optional(<<NT("NumericLiteralSeparator")>>), NT("DecimalDigits")>>), NT("NonOctalDecimalIntegerLiteral")>>)>>)
      [] name = "DecimalDigits" ->
        Diagram(<<OneOrMore(<<NT("DecimalDigit"), Optional(<<NT("NumericLiteralSeparator")>>)>>)>>)
      [] name = "DecimalDigit" ->
        Diagram(<<Choice(<<0, T("0"), T("1"), T("2"), T("3"), T("4"), T("5"), T("6"), T("7"), T("8"), T("9")>>)>>)
      [] name = "NonZeroDigit" ->
        Diagram(<<Choice(<<0, T("1"), T("2"), T("3"), T("4"), T("5"), T("6"), T("7"), T("8"), T("9")>>)>>)
      [] name = "NumericLiteralSeparator" ->
        Diagram(<<T("_")>>)
      [] name = "ExponentPart" ->
        Diagram(<<Sequence(<<NT("ExponentIndicator"), NT("SignedInteger")>>)>>)
      [] name = "ExponentIndicator" ->
        Diagram(<<Choice(<<0, T("e"), T("E")>>)>>)
      [] name = "SignedInteger" ->
        Diagram(<<Choice(<<0, NT("DecimalDigits"), Sequence(<<T("+"), NT("DecimalDigits")>>), Sequence(<<T("-"), NT("DecimalDigits")>>)>>)>>)
      [] name = "BigIntLiteralSuffix" ->
        Diagram(<<T("n")>>)
      [] name = "DecimalBigIntegerLiteral" ->
        Diagram(<<Choice(<<0, Sequence(<<T("0"), NT("BigIntLiteralSuffix")>>), Sequence(<<NT("NonZeroDigit"), Optional(<<NT("DecimalDigits")>>), NT("BigIntLiteralSuffix")>>), Sequence(<<NT("NonZeroDigit"), NT("NumericLiteralSeparator"), NT("DecimalDigits"), NT("BigIntLiteralSuffix")>>)>>)>>)
      [] name = "NonDecimalIntegerLiteral" ->
        Diagram(<<Choice(<<0, NT("BinaryIntegerLiteral"), NT("OctalIntegerLiteral"), NT("HexIntegerLiteral")>>)>>)
      [] name = "BinaryIntegerLiteral" ->
        Diagram(<<Choice(<<0, Sequence(<<T("0b"), NT("BinaryDigits")>>), Sequence(<<T("0B"), NT("BinaryDigits")>>)>>)>>)
      [] name = "BinaryDigits" ->
        Diagram(<<OneOrMore(<<NT("BinaryDigit"), Optional(<<NT("NumericLiteralSeparator")>>)>>)>>)
      [] name = "BinaryDigit" ->
        Diagram(<<Choice(<<0, T("0"), T("1")>>)>>)
      [] name = "OctalIntegerLiteral" ->
        Diagram(<<Choice(<<0, Sequence(<<T("0o"), NT("OctalDigits")>>), Sequence(<<T("0O"), NT("OctalDigits")>>)>>)>>)
      [] name = "OctalDigits" ->
        Diagram(<<OneOrMore(<<NT("OctalDigit"), Optional(<<NT("NumericLiteralSeparator")>>)>>)>>)
      [] name = "OctalDigit" ->
        Diagram(<<Choice(<<0, T("0"), T("1"), T("2"), T("3"), T("4"), T("5"), T("6"), T("7")>>)>>)
      [] name = "HexIntegerLiteral" ->
        Diagram(<<Choice(<<0, Sequence(<<T("0x"), NT("HexDigits")>>), Sequence(<<T("0X"), NT("HexDigits")>>)>>)>>)
      [] name = "HexDigits" ->
        Diagram(<<OneOrMore(<<NT("HexDigit"), Optional(<<NT("NumericLiteralSeparator")>>)>>)>>)
      [] name = "HexDigit" ->
        Diagram(<<Choice(<<0, T("0"), T("1"), T("2"), T("3"), T("4"), T("5"), T("6"), T("7"), T("8"), T("9"), T("a"), T("b"), T("c"), T("d"), T("e"), T("f"), T("A"), T("B"), T("C"), T("D"), T("E"), T("F")>>)>>)
      [] name = "LegacyOctalIntegerLiteral" ->
        Diagram(<<Sequence(<<T("0"), OneOrMore(<<NT("OctalDigit")>>)>>)>>)
      [] name = "StringLiteral" ->
        Diagram(<<Choice(<<0, Sequence(<<T("\""), Optional(<<NT("DoubleStringCharacters")>>), T("\"")>>), Sequence(<<T("'"), Optional(<<NT("SingleStringCharacters")>>), T("'")>>)>>)>>)
      [] name = "DoubleStringCharacters" ->
        Diagram(<<OneOrMore(<<NT("DoubleStringCharacter")>>)>>)
      [] name = "SingleStringCharacters" ->
        Diagram(<<OneOrMore(<<NT("SingleStringCharacter")>>)>>)
      [] name = "DoubleStringCharacter" ->
        Diagram(<<Choice(<<0, Comment(<<"SourceCharacter but not \" or \\ or LineTerminator">>), T("<LS>"), T("<PS>"), Sequence(<<T("\\"), NT("EscapeSequence")>>), NT("LineContinuation")>>)>>)
      [] name = "SingleStringCharacter" ->
        Diagram(<<Choice(<<0, Comment(<<"SourceCharacter but not ' or \\ or LineTerminator">>), T("<LS>"), T("<PS>"), Sequence(<<T("\\"), NT("EscapeSequence")>>), NT("LineContinuation")>>)>>)
      [] name = "LineContinuation" ->
        Diagram(<<Sequence(<<T("\\"), NT("LineTerminatorSequence")>>)>>)
      [] name = "EscapeSequence" ->
        Diagram(<<Choice(<<0, NT("CharacterEscapeSequence"), Sequence(<<T("0"), Comment(<<"[lookahead \\u2209 DecimalDigit]">>)>>), NT("LegacyOctalEscapeSequence"), NT("NonOctalDecimalEscapeSequence"), NT("HexEscapeSequence"), NT("UnicodeEscapeSequence")>>)>>)
      [] name = "CharacterEscapeSequence" ->
        Diagram(<<Choice(<<0, NT("SingleEscapeCharacter"), NT("NonEscapeCharacter")>>)>>)
      [] name = "SingleEscapeCharacter" ->
        Diagram(<<Choice(<<0, T("'"), T("\""), T("\\"), T("b"), T("f"), T("n"), T("r"), T("t"), T("v")>>)>>)
      [] name = "HexEscapeSequence" ->
        Diagram(<<Sequence(<<T("x"), NT("HexDigit"), NT("HexDigit")>>)>>)
      [] name = "UnicodeEscapeSequence" ->
        Diagram(<<Choice(<<0, Sequence(<<T("u"), NT("Hex4Digits")>>), Sequence(<<T("u{"), NT("CodePoint"), T("}")>>)>>)>>)
      [] name = "Hex4Digits" ->
        Diagram(<<Sequence(<<NT("HexDigit"), NT("HexDigit"), NT("HexDigit"), NT("HexDigit")>>)>>)
      [] name = "RegularExpressionLiteral" ->
        Diagram(<<Sequence(<<T("/"), NT("RegularExpressionBody"), T("/"), NT("RegularExpressionFlags")>>)>>)
      [] name = "RegularExpressionBody" ->
        Diagram(<<Sequence(<<NT("RegularExpressionFirstChar"), NT("RegularExpressionChars")>>)>>)
      [] name = "RegularExpressionChars" ->
        Diagram(<<ZeroOrMore(<<NT("RegularExpressionChar")>>)>>)
      [] name = "RegularExpressionFlags" ->
        Diagram(<<ZeroOrMore(<<NT("IdentifierPartChar")>>)>>)
      [] name = "Template" ->
        Diagram(<<Choice(<<0, NT("NoSubstitutionTemplate"), NT("TemplateHead")>>)>>)
      [] name = "NoSubstitutionTemplate" ->
        Diagram(<<Sequence(<<T("\\u0060"), Optional(<<NT("TemplateCharacters")>>), T("\\u0060")>>)>>)
      [] name = "TemplateHead" ->
        Diagram(<<Sequence(<<T("\\u0060"), Optional(<<NT("TemplateCharacters")>>), T("${")>>)>>)
      [] name = "TemplateSubstitutionTail" ->
        Diagram(<<Choice(<<0, NT("TemplateMiddle"), NT("TemplateTail")>>)>>)
      [] name = "TemplateMiddle" ->
        Diagram(<<Sequence(<<T("}"), Optional(<<NT("TemplateCharacters")>>), T("${")>>)>>)
      [] name = "TemplateTail" ->
        Diagram(<<Sequence(<<T("}"), Optional(<<NT("TemplateCharacters")>>), T("\\u0060")>>)>>)
      [] name = "TemplateCharacters" ->
        Diagram(<<OneOrMore(<<NT("TemplateCharacter")>>)>>)
      [] name = "IdentifierReference" ->
        Diagram(<<Choice(<<0, NT("Identifier"), T("yield"), T("await")>>)>>)
      [] name = "BindingIdentifier" ->
        Diagram(<<Choice(<<0, NT("Identifier"), T("yield"), T("await")>>)>>)
      [] name = "LabelIdentifier" ->
        Diagram(<<Choice(<<0, NT("Identifier"), T("yield"), T("await")>>)>>)
      [] name = "Identifier" ->
        Diagram(<<Sequence(<<NT("IdentifierName"), Comment(<<"but not ReservedWord">>)>>)>>)
      [] name = "PrimaryExpression" ->
        Diagram(<<Choice(<<0, T("this"), NT("IdentifierReference"), NT("Literal"), NT("ArrayLiteral"), NT("ObjectLiteral"), NT("FunctionExpression"), NT("ClassExpression"), NT("GeneratorExpression"), NT("AsyncFunctionExpression"), NT("AsyncGeneratorExpression"), NT("RegularExpressionLiteral"), NT("TemplateLiteral"), NT("CoverParenthesizedExpressionAndArrowParameterList")>>)>>)
      [] name = "CoverParenthesizedExpressionAndArrowParameterList" ->
        Diagram(<<Choice(<<0, Sequence(<<T("("), NT("Expression"), T(")")>>), Sequence(<<T("("), NT("Expression"), T(","), T(")")>>), Sequence(<<T("("), T(")")>>), Sequence(<<T("("), T("..."), NT("BindingIdentifier"), T(")")>>), Sequence(<<T("("), T("..."), NT("BindingPattern"), T(")")>>), Sequence(<<T("("), NT("Expression"), T(","), T("..."), NT("BindingIdentifier"), T(")")>>), Sequence(<<T("("), NT("Expression"), T(","), T("..."), NT("BindingPattern"), T(")")>>)>>)>>)
      [] name = "ParenthesizedExpression" ->
        Diagram(<<Sequence(<<T("("), NT("Expression"), T(")")>>)>>)
      [] name = "Literal" ->
        Diagram(<<Choice(<<0, NT("NullLiteral"), NT("BooleanLiteral"), NT("NumericLiteral"), NT("StringLiteral")>>)>>)
      [] name = "ArrayLiteral" ->
        Diagram(<<Choice(<<0, Sequence(<<T("["), Optional(<<NT("Elision")>>), T("]")>>), Sequence(<<T("["), NT("ElementList"), T("]")>>), Sequence(<<T("["), NT("ElementList"), T(","), Optional(<<NT("Elision")>>), T("]")>>)>>)>>)
      [] name = "ElementList" ->
        Diagram(<<Sequence(<<Optional(<<NT("Elision")>>), Choice(<<0, NT("AssignmentExpression"), NT("SpreadElement")>>), ZeroOrMore(<<Sequence(<<T(","), Optional(<<NT("Elision")>>), Choice(<<0, NT("AssignmentExpression"), NT("SpreadElement")>>)>>)>>)>>)>>)
      [] name = "Elision" ->
        Diagram(<<OneOrMore(<<T(",")>>)>>)
      [] name = "SpreadElement" ->
        Diagram(<<Sequence(<<T("..."), NT("AssignmentExpression")>>)>>)
      [] name = "ObjectLiteral" ->
        Diagram(<<Choice(<<0, Sequence(<<T("{"), T("}")>>), Sequence(<<T("{"), NT("PropertyDefinitionList"), T("}")>>), Sequence(<<T("{"), NT("PropertyDefinitionList"), T(","), T("}")>>)>>)>>)
      [] name = "PropertyDefinitionList" ->
        Diagram(<<Sequence(<<NT("PropertyDefinition"), ZeroOrMore(<<Sequence(<<T(","), NT("PropertyDefinition")>>)>>)>>)>>)
      [] name = "PropertyDefinition" ->
        Diagram(<<Choice(<<0, NT("IdentifierReference"), NT("CoverInitializedName"), Sequence(<<NT("PropertyName"), T(":"), NT("AssignmentExpression")>>), NT("MethodDefinition"), Sequence(<<T("..."), NT("AssignmentExpression")>>)>>)>>)
      [] name = "PropertyName" ->
        Diagram(<<Choice(<<0, NT("LiteralPropertyName"), NT("ComputedPropertyName")>>)>>)
      [] name = "LiteralPropertyName" ->
        Diagram(<<Choice(<<0, NT("IdentifierName"), NT("StringLiteral"), NT("NumericLiteral")>>)>>)
      [] name = "ComputedPropertyName" ->
        Diagram(<<Sequence(<<T("["), NT("AssignmentExpression"), T("]")>>)>>)
      [] name = "CoverInitializedName" ->
        Diagram(<<Sequence(<<NT("IdentifierReference"), NT("Initializer")>>)>>)
      [] name = "Initializer" ->
        Diagram(<<Sequence(<<T("="), NT("AssignmentExpression")>>)>>)
      [] name = "TemplateLiteral" ->
        Diagram(<<Choice(<<0, NT("NoSubstitutionTemplate"), NT("SubstitutionTemplate")>>)>>)
      [] name = "SubstitutionTemplate" ->
        Diagram(<<Sequence(<<NT("TemplateHead"), NT("Expression"), NT("TemplateSpans")>>)>>)
      [] name = "TemplateSpans" ->
        Diagram(<<Choice(<<0, NT("TemplateTail"), Sequence(<<NT("TemplateMiddleList"), NT("TemplateTail")>>)>>)>>)
      [] name = "TemplateMiddleList" ->
        Diagram(<<OneOrMore(<<Sequence(<<NT("TemplateMiddle"), NT("Expression")>>)>>)>>)
      [] name = "MemberExpression" ->
        Diagram(<<Sequence(<<Choice(<<0, NT("PrimaryExpression"), NT("SuperProperty"), NT("MetaProperty"), Sequence(<<T("new"), NT("MemberExpression"), NT("Arguments")>>)>>), ZeroOrMore(<<Choice(<<0, Sequence(<<T("["), NT("Expression"), T("]")>>), Sequence(<<T("."), NT("IdentifierName")>>), NT("TemplateLiteral"), Sequence(<<T("."), NT("PrivateIdentifier")>>)>>)>>)>>)>>)
      [] name = "SuperProperty" ->
        Diagram(<<Choice(<<0, Sequence(<<T("super"), T("["), NT("Expression"), T("]")>>), Sequence(<<T("super"), T("."), NT("IdentifierName")>>)>>)>>)
      [] name = "MetaProperty" ->
        Diagram(<<Choice(<<0, NT("NewTarget"), NT("ImportMeta")>>)>>)
      [] name = "NewTarget" ->
        Diagram(<<Sequence(<<T("new"), T("."), T("target")>>)>>)
      [] name = "ImportMeta" ->
        Diagram(<<Sequence(<<T("import"), T("."), T("meta")>>)>>)
      [] name = "NewExpression" ->
        Diagram(<<Choice(<<0, NT("MemberExpression"), Sequence(<<T("new"), NT("NewExpression")>>)>>)>>)
      [] name = "CallExpression" ->
        Diagram(<<Sequence(<<Choice(<<0, NT("CoverCallExpressionAndAsyncArrowHead"), NT("SuperCall"), NT("ImportCall"), Sequence(<<NT("CallExpression"), NT("Arguments")>>)>>), ZeroOrMore(<<Choice(<<0, NT("Arguments"), Sequence(<<T("["), NT("Expression"), T("]")>>), Sequence(<<T("."), NT("IdentifierName")>>), NT("TemplateLiteral"), Sequence(<<T("."), NT("PrivateIdentifier")>>)>>)>>)>>)>>)
      [] name = "SuperCall" ->
        Diagram(<<Sequence(<<T("super"), NT("Arguments")>>)>>)
      [] name = "ImportCall" ->
        Diagram(<<Choice(<<0, Sequence(<<T("import"), T("("), NT("AssignmentExpression"), Optional(<<T(",")>>), T(")")>>), Sequence(<<T("import"), T("("), NT("AssignmentExpression"), T(","), NT("AssignmentExpression"), Optional(<<T(",")>>), T(")")>>)>>)>>)
      [] name = "Arguments" ->
        Diagram(<<Choice(<<0, Sequence(<<T("("), T(")")>>), Sequence(<<T("("), NT("ArgumentList"), T(")")>>), Sequence(<<T("("), NT("ArgumentList"), T(","), T(")")>>)>>)>>)
      [] name = "ArgumentList" ->
        Diagram(<<Sequence(<<Choice(<<0, NT("AssignmentExpression"), Sequence(<<T("..."), NT("AssignmentExpression")>>)>>), ZeroOrMore(<<Sequence(<<T(","), Choice(<<0, NT("AssignmentExpression"), Sequence(<<T("..."), NT("AssignmentExpression")>>)>>)>>)>>)>>)>>)
      [] name = "OptionalExpression" ->
        Diagram(<<Sequence(<<Choice(<<0, NT("MemberExpression"), NT("CallExpression"), NT("OptionalExpression")>>), NT("OptionalChain")>>)>>)
      [] name = "OptionalChain" ->
        Diagram(<<Sequence(<<Choice(<<0, Sequence(<<T("?."), NT("Arguments")>>), Sequence(<<T("?."), T("["), NT("Expression"), T("]")>>), Sequence(<<T("?."), NT("IdentifierName")>>), Sequence(<<T("?."), NT("TemplateLiteral")>>), Sequence(<<T("?."), NT("PrivateIdentifier")>>)>>), ZeroOrMore(<<Choice(<<0, NT("Arguments"), Sequence(<<T("["), NT("Expression"), T("]")>>), Sequence(<<T("."), NT("IdentifierName")>>), NT("TemplateLiteral"), Sequence(<<T("."), NT("PrivateIdentifier")>>)>>)>>)>>)>>)
      [] name = "LeftHandSideExpression" ->
        Diagram(<<Choice(<<0, NT("NewExpression"), NT("CallExpression"), NT("OptionalExpression")>>)>>)
      [] name = "UpdateExpression" ->
        Diagram(<<Choice(<<0, NT("LeftHandSideExpression"), Sequence(<<NT("LeftHandSideExpression"), Comment(<<"[no LineTerminator]">>), T("++")>>), Sequence(<<NT("LeftHandSideExpression"), Comment(<<"[no LineTerminator]">>), T("--")>>), Sequence(<<T("++"), NT("UnaryExpression")>>), Sequence(<<T("--"), NT("UnaryExpression")>>)>>)>>)
      [] name = "UnaryExpression" ->
        Diagram(<<Choice(<<0, NT("UpdateExpression"), Sequence(<<T("delete"), NT("UnaryExpression")>>), Sequence(<<T("void"), NT("UnaryExpression")>>), Sequence(<<T("typeof"), NT("UnaryExpression")>>), Sequence(<<T("+"), NT("UnaryExpression")>>), Sequence(<<T("-"), NT("UnaryExpression")>>), Sequence(<<T("~"), NT("UnaryExpression")>>), Sequence(<<T("!"), NT("UnaryExpression")>>), NT("AwaitExpression")>>)>>)
      [] name = "ExponentiationExpression" ->
        Diagram(<<Choice(<<0, NT("UnaryExpression"), Sequence(<<NT("UpdateExpression"), T("**"), NT("ExponentiationExpression")>>)>>)>>)
      [] name = "MultiplicativeExpression" ->
        Diagram(<<Sequence(<<NT("ExponentiationExpression"), ZeroOrMore(<<Sequence(<<NT("MultiplicativeOperator"), NT("ExponentiationExpression")>>)>>)>>)>>)
      [] name = "MultiplicativeOperator" ->
        Diagram(<<Choice(<<0, T("*"), T("/"), T("%")>>)>>)
      [] name = "AdditiveExpression" ->
        Diagram(<<Sequence(<<NT("MultiplicativeExpression"), ZeroOrMore(<<Choice(<<0, Sequence(<<T("+"), NT("MultiplicativeExpression")>>), Sequence(<<T("-"), NT("MultiplicativeExpression")>>)>>)>>)>>)>>)
      [] name = "ShiftExpression" ->
        Diagram(<<Sequence(<<NT("AdditiveExpression"), ZeroOrMore(<<Choice(<<0, Sequence(<<T("<<"), NT("AdditiveExpression")>>), Sequence(<<T(">>"), NT("AdditiveExpression")>>), Sequence(<<T(">>>"), NT("AdditiveExpression")>>)>>)>>)>>)>>)
      [] name = "RelationalExpression" ->
        Diagram(<<Sequence(<<NT("ShiftExpression"), ZeroOrMore(<<Choice(<<0, Sequence(<<T("<"), NT("ShiftExpression")>>), Sequence(<<T(">"), NT("ShiftExpression")>>), Sequence(<<T("<="), NT("ShiftExpression")>>), Sequence(<<T(">="), NT("ShiftExpression")>>), Sequence(<<T("instanceof"), NT("ShiftExpression")>>), Sequence(<<T("in"), NT("ShiftExpression")>>), Sequence(<<NT("PrivateIdentifier"), T("in"), NT("ShiftExpression")>>)>>)>>)>>)>>)
      [] name = "EqualityExpression" ->
        Diagram(<<Sequence(<<NT("RelationalExpression"), ZeroOrMore(<<Choice(<<0, Sequence(<<T("=="), NT("RelationalExpression")>>), Sequence(<<T("!="), NT("RelationalExpression")>>), Sequence(<<T("==="), NT("RelationalExpression")>>), Sequence(<<T("!=="), NT("RelationalExpression")>>)>>)>>)>>)>>)
      [] name = "BitwiseANDExpression" ->
        Diagram(<<Sequence(<<NT("EqualityExpression"), ZeroOrMore(<<Sequence(<<T("&"), NT("EqualityExpression")>>)>>)>>)>>)
      [] name = "BitwiseXORExpression" ->
        Diagram(<<Sequence(<<NT("BitwiseANDExpression"), ZeroOrMore(<<Sequence(<<T("^"), NT("BitwiseANDExpression")>>)>>)>>)>>)
      [] name = "BitwiseORExpression" ->
        Diagram(<<Sequence(<<NT("BitwiseXORExpression"), ZeroOrMore(<<Sequence(<<T("|"), NT("BitwiseXORExpression")>>)>>)>>)>>)
      [] name = "LogicalANDExpression" ->
        Diagram(<<Sequence(<<NT("BitwiseORExpression"), ZeroOrMore(<<Sequence(<<T("&&"), NT("BitwiseORExpression")>>)>>)>>)>>)
      [] name = "LogicalORExpression" ->
        Diagram(<<Sequence(<<NT("LogicalANDExpression"), ZeroOrMore(<<Sequence(<<T("||"), NT("LogicalANDExpression")>>)>>)>>)>>)
      [] name = "CoalesceExpression" ->
        Diagram(<<Sequence(<<NT("CoalesceExpressionHead"), T("??"), NT("BitwiseORExpression")>>)>>)
      [] name = "CoalesceExpressionHead" ->
        Diagram(<<Choice(<<0, NT("CoalesceExpression"), NT("BitwiseORExpression")>>)>>)
      [] name = "ShortCircuitExpression" ->
        Diagram(<<Choice(<<0, NT("LogicalORExpression"), NT("CoalesceExpression")>>)>>)
      [] name = "ConditionalExpression" ->
        Diagram(<<Choice(<<0, NT("ShortCircuitExpression"), Sequence(<<NT("ShortCircuitExpression"), T("?"), NT("AssignmentExpression"), T(":"), NT("AssignmentExpression")>>)>>)>>)
      [] name = "AssignmentExpression" ->
        Diagram(<<Choice(<<0, NT("ConditionalExpression"), NT("YieldExpression"), NT("ArrowFunction"), NT("AsyncArrowFunction"), Sequence(<<NT("LeftHandSideExpression"), T("="), NT("AssignmentExpression")>>), Sequence(<<NT("LeftHandSideExpression"), NT("AssignmentOperator"), NT("AssignmentExpression")>>), Sequence(<<NT("LeftHandSideExpression"), T("&&="), NT("AssignmentExpression")>>), Sequence(<<NT("LeftHandSideExpression"), T("||="), NT("AssignmentExpression")>>), Sequence(<<NT("LeftHandSideExpression"), T("??="), NT("AssignmentExpression")>>)>>)>>)
      [] name = "AssignmentOperator" ->
        Diagram(<<Choice(<<0, T("*="), T("/="), T("%="), T("+="), T("-="), T("<<="), T(">>="), T(">>>="), T("&="), T("^="), T("|="), T("**=")>>)>>)
      [] name = "AssignmentPattern" ->
        Diagram(<<Choice(<<0, NT("ObjectAssignmentPattern"), NT("ArrayAssignmentPattern")>>)>>)
      [] name = "ObjectAssignmentPattern" ->
        Diagram(<<Choice(<<0, Sequence(<<T("{"), T("}")>>), Sequence(<<T("{"), NT("AssignmentRestProperty"), T("}")>>), Sequence(<<T("{"), NT("AssignmentPropertyList"), T("}")>>), Sequence(<<T("{"), NT("AssignmentPropertyList"), T(","), Optional(<<NT("AssignmentRestProperty")>>), T("}")>>)>>)>>)
      [] name = "ArrayAssignmentPattern" ->
        Diagram(<<Choice(<<0, Sequence(<<T("["), Optional(<<NT("Elision")>>), Optional(<<NT("AssignmentRestElement")>>), T("]")>>), Sequence(<<T("["), NT("AssignmentElementList"), T("]")>>), Sequence(<<T("["), NT("AssignmentElementList"), T(","), Optional(<<NT("Elision")>>), Optional(<<NT("AssignmentRestElement")>>), T("]")>>)>>)>>)
      [] name = "Expression" ->
        Diagram(<<Sequence(<<NT("AssignmentExpression"), ZeroOrMore(<<Sequence(<<T(","), NT("AssignmentExpression")>>)>>)>>)>>)
      [] name = "Statement" ->
        Diagram(<<Choice(<<0, NT("BlockStatement"), NT("VariableStatement"), NT("EmptyStatement"), NT("ExpressionStatement"), NT("IfStatement"), NT("BreakableStatement"), NT("ContinueStatement"), NT("BreakStatement"), NT("ReturnStatement"), NT("WithStatement"), NT("LabelledStatement"), NT("ThrowStatement"), NT("TryStatement"), NT("DebuggerStatement")>>)>>)
      [] name = "Declaration" ->
        Diagram(<<Choice(<<0, NT("HoistableDeclaration"), NT("ClassDeclaration"), NT("LexicalDeclaration")>>)>>)
      [] name = "HoistableDeclaration" ->
        Diagram(<<Choice(<<0, NT("FunctionDeclaration"), NT("GeneratorDeclaration"), NT("AsyncFunctionDeclaration"), NT("AsyncGeneratorDeclaration")>>)>>)
      [] name = "BreakableStatement" ->
        Diagram(<<Choice(<<0, NT("IterationStatement"), NT("SwitchStatement")>>)>>)
      [] name = "BlockStatement" ->
        Diagram(<<NT("Block")>>)
      [] name = "Block" ->
        Diagram(<<Sequence(<<T("{"), Optional(<<NT("StatementList")>>), T("}")>>)>>)
      [] name = "StatementList" ->
        Diagram(<<OneOrMore(<<NT("StatementListItem")>>)>>)
      [] name = "StatementListItem" ->
        Diagram(<<Choice(<<0, NT("Statement"), NT("Declaration")>>)>>)
      [] name = "LexicalDeclaration" ->
        Diagram(<<Sequence(<<NT("LetOrConst"), NT("BindingList"), T(";")>>)>>)
      [] name = "LetOrConst" ->
        Diagram(<<Choice(<<0, T("let"), T("const")>>)>>)
      [] name = "BindingList" ->
        Diagram(<<Sequence(<<NT("LexicalBinding"), ZeroOrMore(<<Sequence(<<T(","), NT("LexicalBinding")>>)>>)>>)>>)
      [] name = "LexicalBinding" ->
        Diagram(<<Choice(<<0, Sequence(<<NT("BindingIdentifier"), Optional(<<NT("Initializer")>>)>>), Sequence(<<NT("BindingPattern"), NT("Initializer")>>)>>)>>)
      [] name = "VariableStatement" ->
        Diagram(<<Sequence(<<T("var"), NT("VariableDeclarationList"), T(";")>>)>>)
      [] name = "VariableDeclarationList" ->
        Diagram(<<Sequence(<<NT("VariableDeclaration"), ZeroOrMore(<<Sequence(<<T(","), NT("VariableDeclaration")>>)>>)>>)>>)
      [] name = "VariableDeclaration" ->
        Diagram(<<Choice(<<0, Sequence(<<NT("BindingIdentifier"), Optional(<<NT("Initializer")>>)>>), Sequence(<<NT("BindingPattern"), NT("Initializer")>>)>>)>>)
      [] name = "BindingPattern" ->
        Diagram(<<Choice(<<0, NT("ObjectBindingPattern"), NT("ArrayBindingPattern")>>)>>)
      [] name = "ObjectBindingPattern" ->
        Diagram(<<Choice(<<0, Sequence(<<T("{"), T("}")>>), Sequence(<<T("{"), NT("BindingRestProperty"), T("}")>>), Sequence(<<T("{"), NT("BindingPropertyList"), T("}")>>), Sequence(<<T("{"), NT("BindingPropertyList"), T(","), Optional(<<NT("BindingRestProperty")>>), T("}")>>)>>)>>)
      [] name = "ArrayBindingPattern" ->
        Diagram(<<Choice(<<0, Sequence(<<T("["), Optional(<<NT("Elision")>>), Optional(<<NT("BindingRestElement")>>), T("]")>>), Sequence(<<T("["), NT("BindingElementList"), T("]")>>), Sequence(<<T("["), NT("BindingElementList"), T(","), Optional(<<NT("Elision")>>), Optional(<<NT("BindingRestElement")>>), T("]")>>)>>)>>)
      [] name = "BindingRestProperty" ->
        Diagram(<<Sequence(<<T("..."), NT("BindingIdentifier")>>)>>)
      [] name = "BindingPropertyList" ->
        Diagram(<<Sequence(<<NT("BindingProperty"), ZeroOrMore(<<Sequence(<<T(","), NT("BindingProperty")>>)>>)>>)>>)
      [] name = "BindingElementList" ->
        Diagram(<<Sequence(<<NT("BindingElisionElement"), ZeroOrMore(<<Sequence(<<T(","), NT("BindingElisionElement")>>)>>)>>)>>)
      [] name = "BindingElisionElement" ->
        Diagram(<<Sequence(<<Optional(<<NT("Elision")>>), NT("BindingElement")>>)>>)
      [] name = "BindingProperty" ->
        Diagram(<<Choice(<<0, NT("SingleNameBinding"), Sequence(<<NT("PropertyName"), T(":"), NT("BindingElement")>>)>>)>>)
      [] name = "BindingElement" ->
        Diagram(<<Choice(<<0, NT("SingleNameBinding"), Sequence(<<NT("BindingPattern"), Optional(<<NT("Initializer")>>)>>)>>)>>)
      [] name = "SingleNameBinding" ->
        Diagram(<<Sequence(<<NT("BindingIdentifier"), Optional(<<NT("Initializer")>>)>>)>>)
      [] name = "BindingRestElement" ->
        Diagram(<<Choice(<<0, Sequence(<<T("..."), NT("BindingIdentifier")>>), Sequence(<<T("..."), NT("BindingPattern")>>)>>)>>)
      [] name = "EmptyStatement" ->
        Diagram(<<T(";")>>)
      [] name = "ExpressionStatement" ->
        Diagram(<<Sequence(<<Comment(<<"[lookahead \\u2209 {, function, async function, class, let [}">>), NT("Expression"), T(";")>>)>>)
      [] name = "IfStatement" ->
        Diagram(<<Choice(<<0, Sequence(<<T("if"), T("("), NT("Expression"), T(")"), NT("Statement"), T("else"), NT("Statement")>>), Sequence(<<T("if"), T("("), NT("Expression"), T(")"), NT("Statement"), Comment(<<"[lookahead \\u2260 else]">>)>>)>>)>>)
      [] name = "IterationStatement" ->
        Diagram(<<Choice(<<0, NT("DoWhileStatement"), NT("WhileStatement"), NT("ForStatement"), NT("ForInOfStatement")>>)>>)
      [] name = "DoWhileStatement" ->
        Diagram(<<Sequence(<<T("do"), NT("Statement"), T("while"), T("("), NT("Expression"), T(")"), T(";")>>)>>)
      [] name = "WhileStatement" ->
        Diagram(<<Sequence(<<T("while"), T("("), NT("Expression"), T(")"), NT("Statement")>>)>>)
      [] name = "ForStatement" ->
        Diagram(<<Choice(<<0, Sequence(<<T("for"), T("("), Optional(<<NT("Expression")>>), T(";"), Optional(<<NT("Expression")>>), T(";"), Optional(<<NT("Expression")>>), T(")"), NT("Statement")>>), Sequence(<<T("for"), T("("), T("var"), NT("VariableDeclarationList"), T(";"), Optional(<<NT("Expression")>>), T(";"), Optional(<<NT("Expression")>>), T(")"), NT("Statement")>>), Sequence(<<T("for"), T("("), NT("LexicalDeclaration"), Optional(<<NT("Expression")>>), T(";"), Optional(<<NT("Expression")>>), T(")"), NT("Statement")>>)>>)>>)
      [] name = "ForInOfStatement" ->
        Diagram(<<Choice(<<0, Sequence(<<T("for"), T("("), NT("LeftHandSideExpression"), T("in"), NT("Expression"), T(")"), NT("Statement")>>), Sequence(<<T("for"), T("("), T("var"), NT("ForBinding"), T("in"), NT("Expression"), T(")"), NT("Statement")>>), Sequence(<<T("for"), T("("), NT("ForDeclaration"), T("in"), NT("Expression"), T(")"), NT("Statement")>>), Sequence(<<T("for"), T("("), NT("LeftHandSideExpression"), T("of"), NT("AssignmentExpression"), T(")"), NT("Statement")>>), Sequence(<<T("for"), T("("), T("var"), NT("ForBinding"), T("of"), NT("AssignmentExpression"), T(")"), NT("Statement")>>), Sequence(<<T("for"), T("("), NT("ForDeclaration"), T("of"), NT("AssignmentExpression"), T(")"), NT("Statement")>>), Sequence(<<T("for"), T("await"), T("("), NT("LeftHandSideExpression"), T("of"), NT("AssignmentExpression"), T(")"), NT("Statement")>>), Sequence(<<T("for"), T("await"), T("("), T("var"), NT("ForBinding"), T("of"), NT("AssignmentExpression"), T(")"), NT("Statement")>>), Sequence(<<T("for"), T("await"), T("("), NT("ForDeclaration"), T("of"), NT("AssignmentExpression"), T(")"), NT("Statement")>>)>>)>>)
      [] name = "ForDeclaration" ->
        Diagram(<<Sequence(<<NT("LetOrConst"), NT("ForBinding")>>)>>)
      [] name = "ForBinding" ->
        Diagram(<<Choice(<<0, NT("BindingIdentifier"), NT("BindingPattern")>>)>>)
      [] name = "ContinueStatement" ->
        Diagram(<<Choice(<<0, Sequence(<<T("continue"), T(";")>>), Sequence(<<T("continue"), Comment(<<"[no LineTerminator]">>), NT("LabelIdentifier"), T(";")>>)>>)>>)
      [] name = "BreakStatement" ->
        Diagram(<<Choice(<<0, Sequence(<<T("break"), T(";")>>), Sequence(<<T("break"), Comment(<<"[no LineTerminator]">>), NT("LabelIdentifier"), T(";")>>)>>)>>)
      [] name = "ReturnStatement" ->
        Diagram(<<Choice(<<0, Sequence(<<T("return"), T(";")>>), Sequence(<<T("return"), Comment(<<"[no LineTerminator]">>), NT("Expression"), T(";")>>)>>)>>)
      [] name = "WithStatement" ->
        Diagram(<<Sequence(<<T("with"), T("("), NT("Expression"), T(")"), NT("Statement")>>)>>)
      [] name = "SwitchStatement" ->
        Diagram(<<Sequence(<<T("switch"), T("("), NT("Expression"), T(")"), NT("CaseBlock")>>)>>)
      [] name = "CaseBlock" ->
        Diagram(<<Choice(<<0, Sequence(<<T("{"), Optional(<<NT("CaseClauses")>>), T("}")>>), Sequence(<<T("{"), Optional(<<NT("CaseClauses")>>), NT("DefaultClause"), Optional(<<NT("CaseClauses")>>), T("}")>>)>>)>>)
      [] name = "CaseClauses" ->
        Diagram(<<OneOrMore(<<NT("CaseClause")>>)>>)
      [] name = "CaseClause" ->
        Diagram(<<Sequence(<<T("case"), NT("Expression"), T(":"), Optional(<<NT("StatementList")>>)>>)>>)
      [] name = "DefaultClause" ->
        Diagram(<<Sequence(<<T("default"), T(":"), Optional(<<NT("StatementList")>>)>>)>>)
      [] name = "LabelledStatement" ->
        Diagram(<<Sequence(<<NT("LabelIdentifier"), T(":"), NT("LabelledItem")>>)>>)
      [] name = "LabelledItem" ->
        Diagram(<<Choice(<<0, NT("Statement"), NT("FunctionDeclaration")>>)>>)
      [] name = "ThrowStatement" ->
        Diagram(<<Sequence(<<T("throw"), Comment(<<"[no LineTerminator]">>), NT("Expression"), T(";")>>)>>)
      [] name = "TryStatement" ->
        Diagram(<<Choice(<<0, Sequence(<<T("try"), NT("Block"), NT("Catch")>>), Sequence(<<T("try"), NT("Block"), NT("Finally")>>), Sequence(<<T("try"), NT("Block"), NT("Catch"), NT("Finally")>>)>>)>>)
      [] name = "Catch" ->
        Diagram(<<Choice(<<0, Sequence(<<T("catch"), T("("), NT("CatchParameter"), T(")"), NT("Block")>>), Sequence(<<T("catch"), NT("Block")>>)>>)>>)
      [] name = "Finally" ->
        Diagram(<<Sequence(<<T("finally"), NT("Block")>>)>>)
      [] name = "CatchParameter" ->
        Diagram(<<Choice(<<0, NT("BindingIdentifier"), NT("BindingPattern")>>)>>)
      [] name = "DebuggerStatement" ->
        Diagram(<<Sequence(<<T("debugger"), T(";")>>)>>)
      [] name = "UniqueFormalParameters" ->
        Diagram(<<NT("FormalParameters")>>)
      [] name = "FormalParameters" ->
        Diagram(<<Choice(<<0, Comment(<<"[empty]">>), NT("FunctionRestParameter"), NT("FormalParameterList"), Sequence(<<NT("FormalParameterList"), T(",")>>), Sequence(<<NT("FormalParameterList"), T(","), NT("FunctionRestParameter")>>)>>)>>)
      [] name = "FormalParameterList" ->
        Diagram(<<Sequence(<<NT("FormalParameter"), ZeroOrMore(<<Sequence(<<T(","), NT("FormalParameter")>>)>>)>>)>>)
      [] name = "FunctionRestParameter" ->
        Diagram(<<NT("BindingRestElement")>>)
      [] name = "FormalParameter" ->
        Diagram(<<NT("BindingElement")>>)
      [] name = "FunctionDeclaration" ->
        Diagram(<<Choice(<<0, Sequence(<<T("function"), NT("BindingIdentifier"), T("("), NT("FormalParameters"), T(")"), T("{"), NT("FunctionBody"), T("}")>>), Sequence(<<T("function"), T("("), NT("FormalParameters"), T(")"), T("{"), NT("FunctionBody"), T("}")>>)>>)>>)
      [] name = "FunctionExpression" ->
        Diagram(<<Sequence(<<T("function"), Optional(<<NT("BindingIdentifier")>>), T("("), NT("FormalParameters"), T(")"), T("{"), NT("FunctionBody"), T("}")>>)>>)
      [] name = "FunctionBody" ->
        Diagram(<<NT("FunctionStatementList")>>)
      [] name = "FunctionStatementList" ->
        Diagram(<<Optional(<<NT("StatementList")>>)>>)
      [] name = "ArrowFunction" ->
        Diagram(<<Sequence(<<NT("ArrowParameters"), Comment(<<"[no LineTerminator]">>), T("=>"), NT("ConciseBody")>>)>>)
      [] name = "ArrowParameters" ->
        Diagram(<<Choice(<<0, NT("BindingIdentifier"), NT("CoverParenthesizedExpressionAndArrowParameterList")>>)>>)
      [] name = "ConciseBody" ->
        Diagram(<<Choice(<<0, Sequence(<<Comment(<<"[lookahead \\u2260 {]">>), NT("ExpressionBody")>>), Sequence(<<T("{"), NT("FunctionBody"), T("}")>>)>>)>>)
      [] name = "ExpressionBody" ->
        Diagram(<<NT("AssignmentExpression")>>)
      [] name = "ArrowFormalParameters" ->
        Diagram(<<Sequence(<<T("("), NT("UniqueFormalParameters"), T(")")>>)>>)
      [] name = "AsyncArrowFunction" ->
        Diagram(<<Choice(<<0, Sequence(<<T("async"), Comment(<<"[no LineTerminator]">>), NT("AsyncArrowBindingIdentifier"), Comment(<<"[no LineTerminator]">>), T("=>"), NT("AsyncConciseBody")>>), Sequence(<<NT("CoverCallExpressionAndAsyncArrowHead"), Comment(<<"[no LineTerminator]">>), T("=>"), NT("AsyncConciseBody")>>)>>)>>)
      [] name = "AsyncConciseBody" ->
        Diagram(<<Choice(<<0, Sequence(<<Comment(<<"[lookahead \\u2260 {]">>), NT("ExpressionBody")>>), Sequence(<<T("{"), NT("AsyncFunctionBody"), T("}")>>)>>)>>)
      [] name = "AsyncArrowBindingIdentifier" ->
        Diagram(<<NT("BindingIdentifier")>>)
      [] name = "CoverCallExpressionAndAsyncArrowHead" ->
        Diagram(<<Sequence(<<NT("MemberExpression"), NT("Arguments")>>)>>)
      [] name = "AsyncArrowHead" ->
        Diagram(<<Sequence(<<T("async"), Comment(<<"[no LineTerminator]">>), NT("ArrowFormalParameters")>>)>>)
      [] name = "MethodDefinition" ->
        Diagram(<<Choice(<<0, Sequence(<<NT("ClassElementName"), T("("), NT("UniqueFormalParameters"), T(")"), T("{"), NT("FunctionBody"), T("}")>>), NT("GeneratorMethod"), NT("AsyncMethod"), NT("AsyncGeneratorMethod"), Sequence(<<T("get"), NT("ClassElementName"), T("("), T(")"), T("{"), NT("FunctionBody"), T("}")>>), Sequence(<<T("set"), NT("ClassElementName"), T("("), NT("PropertySetParameterList"), T(")"), T("{"), NT("FunctionBody"), T("}")>>)>>)>>)
      [] name = "PropertySetParameterList" ->
        Diagram(<<NT("FormalParameter")>>)
      [] name = "GeneratorDeclaration" ->
        Diagram(<<Choice(<<0, Sequence(<<T("function"), T("*"), NT("BindingIdentifier"), T("("), NT("FormalParameters"), T(")"), T("{"), NT("GeneratorBody"), T("}")>>), Sequence(<<T("function"), T("*"), T("("), NT("FormalParameters"), T(")"), T("{"), NT("GeneratorBody"), T("}")>>)>>)>>)
      [] name = "GeneratorExpression" ->
        Diagram(<<Sequence(<<T("function"), T("*"), Optional(<<NT("BindingIdentifier")>>), T("("), NT("FormalParameters"), T(")"), T("{"), NT("GeneratorBody"), T("}")>>)>>)
      [] name = "GeneratorMethod" ->
        Diagram(<<Sequence(<<T("*"), NT("ClassElementName"), T("("), NT("UniqueFormalParameters"), T(")"), T("{"), NT("GeneratorBody"), T("}")>>)>>)
      [] name = "GeneratorBody" ->
        Diagram(<<NT("FunctionBody")>>)
      [] name = "YieldExpression" ->
        Diagram(<<Choice(<<0, T("yield"), Sequence(<<T("yield"), Comment(<<"[no LineTerminator]">>), NT("AssignmentExpression")>>), Sequence(<<T("yield"), Comment(<<"[no LineTerminator]">>), T("*"), NT("AssignmentExpression")>>)>>)>>)
      [] name = "AsyncGeneratorDeclaration" ->
        Diagram(<<Choice(<<0, Sequence(<<T("async"), Comment(<<"[no LineTerminator]">>), T("function"), T("*"), NT("BindingIdentifier"), T("("), NT("FormalParameters"), T(")"), T("{"), NT("AsyncGeneratorBody"), T("}")>>), Sequence(<<T("async"), Comment(<<"[no LineTerminator]">>), T("function"), T("*"), T("("), NT("FormalParameters"), T(")"), T("{"), NT("AsyncGeneratorBody"), T("}")>>)>>)>>)
      [] name = "AsyncGeneratorExpression" ->
        Diagram(<<Sequence(<<T("async"), Comment(<<"[no LineTerminator]">>), T("function"), T("*"), Optional(<<NT("BindingIdentifier")>>), T("("), NT("FormalParameters"), T(")"), T("{"), NT("AsyncGeneratorBody"), T("}")>>)>>)
      [] name = "AsyncGeneratorMethod" ->
        Diagram(<<Sequence(<<T("async"), Comment(<<"[no LineTerminator]">>), T("*"), NT("ClassElementName"), T("("), NT("UniqueFormalParameters"), T(")"), T("{"), NT("AsyncGeneratorBody"), T("}")>>)>>)
      [] name = "AsyncGeneratorBody" ->
        Diagram(<<NT("FunctionBody")>>)
      [] name = "AsyncFunctionDeclaration" ->
        Diagram(<<Choice(<<0, Sequence(<<T("async"), Comment(<<"[no LineTerminator]">>), T("function"), NT("BindingIdentifier"), T("("), NT("FormalParameters"), T(")"), T("{"), NT("AsyncFunctionBody"), T("}")>>), Sequence(<<T("async"), Comment(<<"[no LineTerminator]">>), T("function"), T("("), NT("FormalParameters"), T(")"), T("{"), NT("AsyncFunctionBody"), T("}")>>)>>)>>)
      [] name = "AsyncFunctionExpression" ->
        Diagram(<<Sequence(<<T("async"), Comment(<<"[no LineTerminator]">>), T("function"), Optional(<<NT("BindingIdentifier")>>), T("("), NT("FormalParameters"), T(")"), T("{"), NT("AsyncFunctionBody"), T("}")>>)>>)
      [] name = "AsyncMethod" ->
        Diagram(<<Sequence(<<T("async"), Comment(<<"[no LineTerminator]">>), NT("ClassElementName"), T("("), NT("UniqueFormalParameters"), T(")"), T("{"), NT("AsyncFunctionBody"), T("}")>>)>>)
      [] name = "AsyncFunctionBody" ->
        Diagram(<<NT("FunctionBody")>>)
      [] name = "AwaitExpression" ->
        Diagram(<<Sequence(<<T("await"), NT("UnaryExpression")>>)>>)
      [] name = "ClassDeclaration" ->
        Diagram(<<Choice(<<0, Sequence(<<T("class"), NT("BindingIdentifier"), NT("ClassTail")>>), Sequence(<<T("class"), NT("ClassTail")>>)>>)>>)
      [] name = "ClassExpression" ->
        Diagram(<<Sequence(<<T("class"), Optional(<<NT("BindingIdentifier")>>), NT("ClassTail")>>)>>)
      [] name = "ClassTail" ->
        Diagram(<<Sequence(<<Optional(<<NT("ClassHeritage")>>), T("{"), Optional(<<NT("ClassBody")>>), T("}")>>)>>)
      [] name = "ClassHeritage" ->
        Diagram(<<Sequence(<<T("extends"), NT("LeftHandSideExpression")>>)>>)
      [] name = "ClassBody" ->
        Diagram(<<NT("ClassElementList")>>)
      [] name = "ClassElementList" ->
        Diagram(<<OneOrMore(<<NT("ClassElement")>>)>>)
      [] name = "ClassElement" ->
        Diagram(<<Choice(<<0, NT("MethodDefinition"), Sequence(<<T("static"), NT("MethodDefinition")>>), Sequence(<<NT("FieldDefinition"), T(";")>>), Sequence(<<T("static"), NT("FieldDefinition"), T(";")>>), NT("ClassStaticBlock"), T(";")>>)>>)
      [] name = "FieldDefinition" ->
        Diagram(<<Sequence(<<NT("ClassElementName"), Optional(<<NT("Initializer")>>)>>)>>)
      [] name = "ClassElementName" ->
        Diagram(<<Choice(<<0, NT("PropertyName"), NT("PrivateIdentifier")>>)>>)
      [] name = "ClassStaticBlock" ->
        Diagram(<<Sequence(<<T("static"), T("{"), NT("ClassStaticBlockBody"), T("}")>>)>>)
      [] name = "ClassStaticBlockBody" ->
        Diagram(<<NT("ClassStaticBlockStatementList")>>)
      [] name = "ClassStaticBlockStatementList" ->
        Diagram(<<Optional(<<NT("StatementList")>>)>>)
      [] name = "Script" ->
        Diagram(<<Optional(<<NT("ScriptBody")>>)>>)
      [] name = "ScriptBody" ->
        Diagram(<<NT("StatementList")>>)
      [] name = "Module" ->
        Diagram(<<Optional(<<NT("ModuleBody")>>)>>)
      [] name = "ModuleBody" ->
        Diagram(<<NT("ModuleItemList")>>)
      [] name = "ModuleItemList" ->
        Diagram(<<OneOrMore(<<NT("ModuleItem")>>)>>)
      [] name = "ModuleItem" ->
        Diagram(<<Choice(<<0, NT("ImportDeclaration"), NT("ExportDeclaration"), NT("StatementListItem")>>)>>)
      [] name = "ModuleExportName" ->
        Diagram(<<Choice(<<0, NT("IdentifierName"), NT("StringLiteral")>>)>>)
      [] name = "ImportDeclaration" ->
        Diagram(<<Choice(<<0, Sequence(<<T("import"), NT("ImportClause"), NT("FromClause"), Optional(<<NT("WithClause")>>), T(";")>>), Sequence(<<T("import"), NT("ModuleSpecifier"), Optional(<<NT("WithClause")>>), T(";")>>)>>)>>)
      [] name = "ImportClause" ->
        Diagram(<<Choice(<<0, NT("ImportedDefaultBinding"), NT("NameSpaceImport"), NT("NamedImports"), Sequence(<<NT("ImportedDefaultBinding"), T(","), NT("NameSpaceImport")>>), Sequence(<<NT("ImportedDefaultBinding"), T(","), NT("NamedImports")>>)>>)>>)
      [] name = "ImportedDefaultBinding" ->
        Diagram(<<NT("ImportedBinding")>>)
      [] name = "NameSpaceImport" ->
        Diagram(<<Sequence(<<T("*"), T("as"), NT("ImportedBinding")>>)>>)
      [] name = "NamedImports" ->
        Diagram(<<Choice(<<0, Sequence(<<T("{"), T("}")>>), Sequence(<<T("{"), NT("ImportsList"), T("}")>>), Sequence(<<T("{"), NT("ImportsList"), T(","), T("}")>>)>>)>>)
      [] name = "FromClause" ->
        Diagram(<<Sequence(<<T("from"), NT("ModuleSpecifier")>>)>>)
      [] name = "ImportsList" ->
        Diagram(<<Sequence(<<NT("ImportSpecifier"), ZeroOrMore(<<Sequence(<<T(","), NT("ImportSpecifier")>>)>>)>>)>>)
      [] name = "ImportSpecifier" ->
        Diagram(<<Choice(<<0, NT("ImportedBinding"), Sequence(<<NT("ModuleExportName"), T("as"), NT("ImportedBinding")>>)>>)>>)
      [] name = "ModuleSpecifier" ->
        Diagram(<<NT("StringLiteral")>>)
      [] name = "ImportedBinding" ->
        Diagram(<<NT("BindingIdentifier")>>)
      [] name = "WithClause" ->
        Diagram(<<Choice(<<0, Sequence(<<T("with"), T("{"), T("}")>>), Sequence(<<T("with"), T("{"), NT("WithEntries"), Optional(<<T(",")>>), T("}")>>)>>)>>)
      [] name = "WithEntries" ->
        Diagram(<<Sequence(<<NT("AttributeKey"), T(":"), NT("StringLiteral"), ZeroOrMore(<<Sequence(<<T(","), NT("AttributeKey"), T(":"), NT("StringLiteral")>>)>>)>>)>>)
      [] name = "AttributeKey" ->
        Diagram(<<Choice(<<0, NT("IdentifierName"), NT("StringLiteral")>>)>>)
      [] name = "ExportDeclaration" ->
        Diagram(<<Choice(<<0, Sequence(<<T("export"), NT("ExportFromClause"), NT("FromClause"), Optional(<<NT("WithClause")>>), T(";")>>), Sequence(<<T("export"), NT("NamedExports"), T(";")>>), Sequence(<<T("export"), NT("VariableStatement")>>), Sequence(<<T("export"), NT("Declaration")>>), Sequence(<<T("export"), T("default"), NT("HoistableDeclaration")>>), Sequence(<<T("export"), T("default"), NT("ClassDeclaration")>>), Sequence(<<T("export"), T("default"), Comment(<<"[lookahead \\u2209 {function, async function, class}]">>), NT("AssignmentExpression"), T(";")>>)>>)>>)
      [] name = "ExportFromClause" ->
        Diagram(<<Choice(<<0, T("*"), Sequence(<<T("*"), T("as"), NT("ModuleExportName")>>), NT("NamedExports")>>)>>)
      [] name = "NamedExports" ->
        Diagram(<<Choice(<<0, Sequence(<<T("{"), T("}")>>), Sequence(<<T("{"), NT("ExportsList"), T("}")>>), Sequence(<<T("{"), NT("ExportsList"), T(","), T("}")>>)>>)>>)
      [] name = "ExportsList" ->
        Diagram(<<Sequence(<<NT("ExportSpecifier"), ZeroOrMore(<<Sequence(<<T(","), NT("ExportSpecifier")>>)>>)>>)>>)
      [] name = "ExportSpecifier" ->
        Diagram(<<Choice(<<0, NT("ModuleExportName"), Sequence(<<NT("ModuleExportName"), T("as"), NT("ModuleExportName")>>)>>)>>)

\* () => Diagram(...) of each ES5.1 rule
BodyES5(name) ==
    CASE name = "SourceCharacter" ->
        Diagram(<<Comment(<<"any Unicode code unit">>)>>)
      [] name = "InputElementDiv" ->
        Diagram(<<Choice(<<0, NT("WhiteSpace"), NT("LineTerminator"), NT("Comment"), NT("Token"), NT("DivPunctuator")>>)>>)
      [] name = "InputElementRegExp" ->
        Diagram(<<Choice(<<0, NT("WhiteSpace"), NT("LineTerminator"), NT("Comment"), NT("Token"), NT("RegularExpressionLiteral")>>)>>)
      [] name = "WhiteSpace" ->
        Diagram(<<Choice(<<0, T("<TAB>"), T("<VT>"), T("<FF>"), T("<SP>"), T("<NBSP>"), T("<BOM>"), T("<USP>")>>)>>)
      [] name = "LineTerminator" ->
        Diagram(<<Choice(<<0, T("<LF>"), T("<CR>"), T("<LS>"), T("<PS>")>>)>>)
      [] name = "LineTerminatorSequence" ->
        Diagram(<<Choice(<<0, T("<LF>"), Sequence(<<T("<CR>"), Comment(<<"lookahead \\u2209 <LF>">>)>>), T("<LS>"), T("<PS>"), Sequence(<<T("<CR>"), T("<LF>")>>)>>)>>)
      [] name = "Comment" ->
        Diagram(<<Choice(<<0, NT("MultiLineComment"), NT("SingleLineComment")>>)>>)
      [] name = "MultiLineComment" ->
        Diagram(<<Sequence(<<T("/*"), Optional(<<NT("MultiLineCommentChars")>>), T("*/")>>)>>)
      [] name = "MultiLineCommentChars" ->
        Diagram(<<Choice(<<0, Sequence(<<NT("MultiLineNotAsteriskChar"), Optional(<<NT("MultiLineCommentChars")>>)>>), Sequence(<<T("*"), Optional(<<NT("PostAsteriskCommentChars")>>)>>)>>)>>)
      [] name = "PostAsteriskCommentChars" ->
        Diagram(<<Choice(<<0, Sequence(<<NT("MultiLineNotForwardSlashOrAsteriskChar"), Optional(<<NT("MultiLineCommentChars")>>)>>), Sequence(<<T("*"), Optional(<<NT("PostAsteriskCommentChars")>>)>>)>>)>>)
      [] name = "MultiLineNotAsteriskChar" ->
        Diagram(<<Sequence(<<NT("SourceCharacter"), Comment(<<"but not *">>)>>)>>)
      [] name = "MultiLineNotForwardSlashOrAsteriskChar" ->
        Diagram(<<Sequence(<<NT("SourceCharacter"), Comment(<<"but not / or *">>)>>)>>)
      [] name = "SingleLineComment" ->
        Diagram(<<Sequence(<<T("//"), Optional(<<NT("SingleLineCommentChars")>>)>>)>>)
      [] name = "SingleLineCommentChars" ->
        Diagram(<<Sequence(<<NT("SingleLineCommentChar"), Optional(<<NT("SingleLineCommentChars")>>)>>)>>)
      [] name = "SingleLineCommentChar" ->
        Diagram(<<Sequence(<<NT("SourceCharacter"), Comment(<<"but not LineTerminator">>)>>)>>)
      [] name = "Token" ->
        Diagram(<<Choice(<<0, NT("IdentifierName"), NT("Punctuator"), NT("NumericLiteral"), NT("StringLiteral")>>)>>)
      [] name = "Identifier" ->
        Diagram(<<Sequence(<<NT("IdentifierName"), Comment(<<"but not ReservedWord">>)>>)>>)
      [] name = "IdentifierName" ->
        Diagram(<<Sequence(<<NT("IdentifierStart"), ZeroOrMore(<<NT("IdentifierPart")>>)>>)>>)
      [] name = "IdentifierStart" ->
        Diagram(<<Choice(<<0, NT("UnicodeLetter"), T("$"), T("_"), Sequence(<<T("\\"), NT("UnicodeEscapeSequence")>>)>>)>>)
      [] name = "IdentifierPart" ->
        Diagram(<<Choice(<<0, NT("IdentifierStart"), NT("UnicodeCombiningMark"), NT("UnicodeDigit"), NT("UnicodeConnectorPunctuation"), T("<ZWNJ>"), T("<ZWJ>")>>)>>)
      [] name = "UnicodeLetter" ->
        Diagram(<<Comment(<<"Unicode categories Lu, Ll, Lt, Lm, Lo, or Nl">>)>>)
      [] name = "UnicodeCombiningMark" ->
        Diagram(<<Comment(<<"Unicode categories Mn or Mc">>)>>)
      [] name = "UnicodeDigit" ->
        Diagram(<<Comment(<<"Unicode category Nd">>)>>)
      [] name = "UnicodeConnectorPunctuation" ->
        Diagram(<<Comment(<<"Unicode category Pc">>)>>)
      [] name = "ReservedWord" ->
        Diagram(<<Choice(<<0, NT("Keyword"), NT("FutureReservedWord"), NT("NullLiteral"), NT("BooleanLiteral")>>)>>)
      [] name = "Keyword" ->
        Diagram(<<Choice(<<0, T("break"), T("do"), T("instanceof"), T("typeof"), T("case"), T("else"), T("new"), T("var"), T("catch"), T("finally"), T("return"), T("void"), T("continue"), T("for"), T("switch"), T("while"), T("debugger"), T("function"), T("this"), T("with"), T("default"), T("if"), T("throw"), T("delete"), T("in"), T("try")>>)>>)
      [] name = "FutureReservedWord" ->
        Diagram(<<Choice(<<0, Comment(<<"Normal mode:">>), T("class"), T("enum"), T("extends"), T("super"), T("const"), T("export"), T("import"), Comment(<<"Strict mode additions:">>), T("implements"), T("let"), T("private"), T("public"), T("interface"), T("package"), T("protected"), T("static"), T("yield")>>)>>)
      [] name = "Punctuator" ->
        Diagram(<<Choice(<<0, T("{"), T("}"), T("("), T(")"), T("["), T("]"), T("."), T(";"), T(","), T("<"), T(">"), T("<="), T(">="), T("=="), T("!="), T("==="), T("!=="), T("+"), T("-"), T("*"), T("%"), T("++"), T("--"), T("<<"), T(">>"), T(">>>"), T("&"), T("|"), T("^"), T("!"), T("~"), T("&&"), T("||"), T("?"), T(":"), T("="), T("+="), T("-="), T("*="), T("%="), T("<<="), T(">>="), T(">>>="), T("&="), T("|="), T("^=")>>)>>)
      [] name = "DivPunctuator" ->
        Diagram(<<Choice(<<0, T("/"), T("/=")>>)>>)
      [] name = "Literal" ->
        Diagram(<<Choice(<<0, NT("NullLiteral"), NT("BooleanLiteral"), NT("NumericLiteral"), NT("StringLiteral"), NT("RegularExpressionLiteral")>>)>>)
      [] name = "NullLiteral" ->
        Diagram(<<T("null")>>)
      [] name = "BooleanLiteral" ->
        Diagram(<<Choice(<<0, T("true"), T("false")>>)>>)
      [] name = "NumericLiteral" ->
        Diagram(<<Choice(<<0, NT("DecimalLiteral"), NT("HexIntegerLiteral")>>)>>)
      [] name = "DecimalLiteral" ->
        Diagram(<<Choice(<<0, Sequence(<<NT("DecimalIntegerLiteral"), T("."), Optional(<<NT("DecimalDigits")>>), Optional(<<NT("ExponentPart")>>)>>), Sequence(<<T("."), NT("DecimalDigits"), Optional(<<NT("ExponentPart")>>)>>), Sequence(<<NT("DecimalIntegerLiteral"), Optional(<<NT("ExponentPart")>>)>>)>>)>>)
      [] name = "DecimalIntegerLiteral" ->
        Diagram(<<Choice(<<0, T("0"), Sequence(<<NT("NonZeroDigit"), Optional(<<NT("DecimalDigits")>>)>>)>>)>>)
      [] name = "DecimalDigits" ->
        Diagram(<<OneOrMore(<<NT("DecimalDigit")>>)>>)
      [] name = "DecimalDigit" ->
        Diagram(<<Choice(<<0, T("0"), T("1"), T("2"), T("3"), T("4"), T("5"), T("6"), T("7"), T("8"), T("9")>>)>>)
      [] name = "NonZeroDigit" ->
        Diagram(<<Choice(<<0, T("1"), T("2"), T("3"), T("4"), T("5"), T("6"), T("7"), T("8"), T("9")>>)>>)
      [] name = "ExponentPart" ->
        Diagram(<<Sequence(<<NT("ExponentIndicator"), NT("SignedInteger")>>)>>)
      [] name = "ExponentIndicator" ->
        Diagram(<<Choice(<<0, T("e"), T("E")>>)>>)
      [] name = "SignedInteger" ->
        Diagram(<<Choice(<<0, NT("DecimalDigits"), Sequence(<<T("+"), NT("DecimalDigits")>>), Sequence(<<T("-"), NT("DecimalDigits")>>)>>)>>)
      [] name = "HexIntegerLiteral" ->
        Diagram(<<Sequence(<<Choice(<<0, T("0x"), T("0X")>>), OneOrMore(<<NT("HexDigit")>>)>>)>>)
      [] name = "HexDigit" ->
        Diagram(<<Choice(<<0, T("0"), T("1"), T("2"), T("3"), T("4"), T("5"), T("6"), T("7"), T("8"), T("9"), T("a"), T("b"), T("c"), T("d"), T("e"), T("f"), T("A"), T("B"), T("C"), T("D"), T("E"), T("F")>>)>>)
      [] name = "StringLiteral" ->
        Diagram(<<Choice(<<0, Sequence(<<T("\""), Optional(<<NT("DoubleStringCharacters")>>), T("\"")>>), Sequence(<<T("'"), Optional(<<NT("SingleStringCharacters")>>), T("'")>>)>>)>>)
      [] name = "DoubleStringCharacters" ->
        Diagram(<<OneOrMore(<<NT("DoubleStringCharacter")>>)>>)
      [] name = "SingleStringCharacters" ->
        Diagram(<<OneOrMore(<<NT("SingleStringCharacter")>>)>>)
      [] name = "DoubleStringCharacter" ->
        Diagram(<<Choice(<<0, Sequence(<<NT("SourceCharacter"), Comment(<<"but not \" or \\ or LineTerminator">>)>>), Sequence(<<T("\\"), NT("EscapeSequence")>>), NT("LineContinuation")>>)>>)
      [] name = "SingleStringCharacter" ->
        Diagram(<<Choice(<<0, Sequence(<<NT("SourceCharacter"), Comment(<<"but not ' or \\ or LineTerminator">>)>>), Sequence(<<T("\\"), NT("EscapeSequence")>>), NT("LineContinuation")>>)>>)
      [] name = "LineContinuation" ->
        Diagram(<<Sequence(<<T("\\"), NT("LineTerminatorSequence")>>)>>)
      [] name = "EscapeSequence" ->
        Diagram(<<Choice(<<0, NT("CharacterEscapeSequence"), Sequence(<<T("0"), Comment(<<"lookahead \\u2209 DecimalDigit">>)>>), NT("HexEscapeSequence"), NT("UnicodeEscapeSequence")>>)>>)
      [] name = "CharacterEscapeSequence" ->
        Diagram(<<Choice(<<0, NT("SingleEscapeCharacter"), NT("NonEscapeCharacter")>>)>>)
      [] name = "SingleEscapeCharacter" ->
        Diagram(<<Choice(<<0, T("'"), T("\""), T("\\"), T("b"), T("f"), T("n"), T("r"), T("t"), T("v")>>)>>)
      [] name = "NonEscapeCharacter" ->
        Diagram(<<Sequence(<<NT("SourceCharacter"), Comment(<<"but not EscapeCharacter or LineTerminator">>)>>)>>)
      [] name = "EscapeCharacter" ->
        Diagram(<<Choice(<<0, NT("SingleEscapeCharacter"), NT("DecimalDigit"), T("x"), T("u")>>)>>)
      [] name = "HexEscapeSequence" ->
        Diagram(<<Sequence(<<T("x"), NT("HexDigit"), NT("HexDigit")>>)>>)
      [] name = "UnicodeEscapeSequence" ->
        Diagram(<<Sequence(<<T("u"), NT("HexDigit"), NT("HexDigit"), NT("HexDigit"), NT("HexDigit")>>)>>)
      [] name = "RegularExpressionLiteral" ->
        Diagram(<<Sequence(<<T("/"), NT("RegularExpressionBody"), T("/"), NT("RegularExpressionFlags")>>)>>)
      [] name = "RegularExpressionBody" ->
        Diagram(<<Sequence(<<NT("RegularExpressionFirstChar"), NT("RegularExpressionChars")>>)>>)
      [] name = "RegularExpressionChars" ->
        Diagram(<<ZeroOrMore(<<NT("RegularExpressionChar")>>)>>)
      [] name = "RegularExpressionFirstChar" ->
        Diagram(<<Choice(<<0, Sequence(<<NT("RegularExpressionNonTerminator"), Comment(<<"but not * or \\ or / or [">>)>>), NT("RegularExpressionBackslashSequence"), NT("RegularExpressionClass")>>)>>)
      [] name = "RegularExpressionChar" ->
        Diagram(<<Choice(<<0, Sequence(<<NT("RegularExpressionNonTerminator"), Comment(<<"but not \\ or / or [">>)>>), NT("RegularExpressionBackslashSequence"), NT("RegularExpressionClass")>>)>>)
      [] name = "RegularExpressionBackslashSequence" ->
        Diagram(<<Sequence(<<T("\\"), NT("RegularExpressionNonTerminator")>>)>>)
      [] name = "RegularExpressionNonTerminator" ->
        Diagram(<<Sequence(<<NT("SourceCharacter"), Comment(<<"but not LineTerminator">>)>>)>>)
      [] name = "RegularExpressionClass" ->
        Diagram(<<Sequence(<<T("["), NT("RegularExpressionClassChars"), T("]")>>)>>)
      [] name = "RegularExpressionClassChars" ->
        Diagram(<<ZeroOrMore(<<NT("RegularExpressionClassChar")>>)>>)
      [] name = "RegularExpressionClassChar" ->
        Diagram(<<Choice(<<0, Sequence(<<NT("RegularExpressionNonTerminator"), Comment(<<"but not ] or \\">>)>>), NT("RegularExpressionBackslashSequence")>>)>>)
      [] name = "RegularExpressionFlags" ->
        Diagram(<<ZeroOrMore(<<NT("IdentifierPart")>>)>>)
      [] name = "PrimaryExpression" ->
        Diagram(<<Choice(<<0, T("this"), NT("Identifier"), NT("Literal"), NT("ArrayLiteral"), NT("ObjectLiteral"), Sequence(<<T("("), NT("Expression"), T(")")>>)>>)>>)
      [] name = "ArrayLiteral" ->
        Diagram(<<Choice(<<0, Sequence(<<T("["), Optional(<<NT("Elision")>>), T("]")>>), Sequence(<<T("["), NT("ElementList"), T("]")>>), Sequence(<<T("["), NT("ElementList"), T(","), Optional(<<NT("Elision")>>), T("]")>>)>>)>>)
      [] name = "ElementList" ->
        Diagram(<<Sequence(<<Optional(<<NT("Elision")>>), NT("AssignmentExpression"), ZeroOrMore(<<Sequence(<<T(","), Optional(<<NT("Elision")>>), NT("AssignmentExpression")>>)>>)>>)>>)
      [] name = "Elision" ->
        Diagram(<<OneOrMore(<<T(",")>>)>>)
      [] name = "ObjectLiteral" ->
        Diagram(<<Choice(<<0, Sequence(<<T("{"), T("}")>>), Sequence(<<T("{"), NT("PropertyNameAndValueList"), T("}")>>), Sequence(<<T("{"), NT("PropertyNameAndValueList"), T(","), T("}")>>)>>)>>)
      [] name = "PropertyNameAndValueList" ->
        Diagram(<<Sequence(<<NT("PropertyAssignment"), ZeroOrMore(<<Sequence(<<T(","), NT("PropertyAssignment")>>)>>)>>)>>)
      [] name = "PropertyAssignment" ->
        Diagram(<<Choice(<<0, Sequence(<<NT("PropertyName"), T(":"), NT("AssignmentExpression")>>), Sequence(<<T("get"), NT("PropertyName"), T("("), T(")"), T("{"), NT("FunctionBody"), T("}")>>), Sequence(<<T("set"), NT("PropertyName"), T("("), NT("PropertySetParameterList"), T(")"), T("{"), NT("FunctionBody"), T("}")>>)>>)>>)
      [] name = "PropertyName" ->
        Diagram(<<Choice(<<0, NT("IdentifierName"), NT("StringLiteral"), NT("NumericLiteral")>>)>>)
      [] name = "PropertySetParameterList" ->
        Diagram(<<NT("Identifier")>>)
      [] name = "MemberExpression" ->
        Diagram(<<Sequence(<<Choice(<<0, NT("PrimaryExpression"), NT("FunctionExpression"), Sequence(<<T("new"), NT("MemberExpression"), NT("Arguments")>>)>>), ZeroOrMore(<<Choice(<<0, Sequence(<<T("["), NT("Expression"), T("]")>>), Sequence(<<T("."), NT("IdentifierName")>>)>>)>>)>>)>>)
      [] name = "NewExpression" ->
        Diagram(<<Choice(<<0, NT("MemberExpression"), Sequence(<<T("new"), NT("NewExpression")>>)>>)>>)
      [] name = "CallExpression" ->
        Diagram(<<Sequence(<<Choice(<<0, Sequence(<<NT("MemberExpression"), NT("Arguments")>>), Sequence(<<NT("CallExpression"), NT("Arguments")>>), Sequence(<<NT("CallExpression"), T("["), NT("Expression"), T("]")>>), Sequence(<<NT("CallExpression"), T("."), NT("IdentifierName")>>)>>)>>)>>)
      [] name = "Arguments" ->
        Diagram(<<Choice(<<0, Sequence(<<T("("), T(")")>>), Sequence(<<T("("), NT("ArgumentList"), T(")")>>)>>)>>)
      [] name = "ArgumentList" ->
        Diagram(<<Sequence(<<NT("AssignmentExpression"), ZeroOrMore(<<Sequence(<<T(","), NT("AssignmentExpression")>>)>>)>>)>>)
      [] name = "LeftHandSideExpression" ->
        Diagram(<<Choice(<<0, NT("NewExpression"), NT("CallExpression")>>)>>)
      [] name = "PostfixExpression" ->
        Diagram(<<Sequence(<<NT("LeftHandSideExpression"), Optional(<<Choice(<<0, T("++"), T("--")>>)>>)>>)>>)
      [] name = "UnaryExpression" ->
        Diagram(<<Choice(<<0, NT("PostfixExpression"), Sequence(<<T("delete"), NT("UnaryExpression")>>), Sequence(<<T("void"), NT("UnaryExpression")>>), Sequence(<<T("typeof"), NT("UnaryExpression")>>), Sequence(<<T("++"), NT("UnaryExpression")>>), Sequence(<<T("--"), NT("UnaryExpression")>>), Sequence(<<T("+"), NT("UnaryExpression")>>), Sequence(<<T("-"), NT("UnaryExpression")>>), Sequence(<<T("~"), NT("UnaryExpression")>>), Sequence(<<T("!"), NT("UnaryExpression")>>)>>)>>)
      [] name = "MultiplicativeExpression" ->
        Diagram(<<chain("UnaryExpression", <<"*", "/", "%">>)>>)
      [] name = "AdditiveExpression" ->
        Diagram(<<chain("MultiplicativeExpression", <<"+", "-">>)>>)
      [] name = "ShiftExpression" ->
        Diagram(<<chain("AdditiveExpression", <<"<<", ">>", ">>>">>)>>)
      [] name = "RelationalExpression" ->
        Diagram(<<chain("ShiftExpression", <<"<", ">", "<=", ">=", "instanceof", "in">>)>>)
      [] name = "RelationalExpressionNoIn" ->
        Diagram(<<chain("ShiftExpression", <<"<", ">", "<=", ">=", "instanceof">>)>>)
      [] name = "EqualityExpression" ->
        Diagram(<<chain("RelationalExpression", <<"==", "!=", "===", "!==">>)>>)
      [] name = "EqualityExpressionNoIn" ->
        Diagram(<<chain("RelationalExpressionNoIn", <<"==", "!=", "===", "!==">>)>>)
      [] name = "BitwiseANDExpression" ->
        Diagram(<<chain("EqualityExpression", <<"&">>)>>)
      [] name = "BitwiseANDExpressionNoIn" ->
        Diagram(<<chain("EqualityExpressionNoIn", <<"&">>)>>)
      [] name = "BitwiseXORExpression" ->
        Diagram(<<chain("BitwiseANDExpression", <<"^">>)>>)
      [] name = "BitwiseXORExpressionNoIn" ->
        Diagram(<<chain("BitwiseANDExpressionNoIn", <<"^">>)>>)
      [] name = "BitwiseORExpression" ->
        Diagram(<<chain("BitwiseXORExpression", <<"|">>)>>)
      [] name = "BitwiseORExpressionNoIn" ->
        Diagram(<<chain("BitwiseXORExpressionNoIn", <<"|">>)>>)
      [] name = "LogicalANDExpression" ->
        Diagram(<<chain("BitwiseORExpression", <<"&&">>)>>)
      [] name = "LogicalANDExpressionNoIn" ->
        Diagram(<<chain("BitwiseORExpressionNoIn", <<"&&">>)>>)
      [] name = "LogicalORExpression" ->
        Diagram(<<chain("LogicalANDExpression", <<"||">>)>>)
      [] name = "LogicalORExpressionNoIn" ->
        Diagram(<<chain("LogicalANDExpressionNoIn", <<"||">>)>>)
      [] name = "ConditionalExpression" ->
        Diagram(<<Sequence(<<NT("LogicalORExpression"), Optional(<<Sequence(<<T("?"), NT("AssignmentExpression"), T(":"), NT("AssignmentExpression")>>)>>)>>)>>)
      [] name = "ConditionalExpressionNoIn" ->
        Diagram(<<Sequence(<<NT("LogicalORExpressionNoIn"), Optional(<<Sequence(<<T("?"), NT("AssignmentExpressionNoIn"), T(":"), NT("AssignmentExpressionNoIn")>>)>>)>>)>>)
      [] name = "AssignmentExpression" ->
        Diagram(<<Choice(<<0, NT("ConditionalExpression"), Sequence(<<NT("LeftHandSideExpression"), NT("AssignmentOperator"), NT("AssignmentExpression")>>)>>)>>)
      [] name = "AssignmentExpressionNoIn" ->
        Diagram(<<Choice(<<0, NT("ConditionalExpressionNoIn"), Sequence(<<NT("LeftHandSideExpression"), NT("AssignmentOperator"), NT("AssignmentExpressionNoIn")>>)>>)>>)
      [] name = "AssignmentOperator" ->
        Diagram(<<Choice(<<0, T("="), T("*="), T("/="), T("%="), T("+="), T("-="), T("<<="), T(">>="), T(">>>="), T("&="), T("^="), T("|=")>>)>>)
      [] name = "Expression" ->
        Diagram(<<Sequence(<<NT("AssignmentExpression"), ZeroOrMore(<<Sequence(<<T(","), NT("AssignmentExpression")>>)>>)>>)>>)
      [] name = "ExpressionNoIn" ->
        Diagram(<<Sequence(<<NT("AssignmentExpressionNoIn"), ZeroOrMore(<<Sequence(<<T(","), NT("AssignmentExpressionNoIn")>>)>>)>>)>>)
      [] name = "Statement" ->
        Diagram(<<Choice(<<0, NT("Block"), NT("VariableStatement"), NT("EmptyStatement"), NT("ExpressionStatement"), NT("IfStatement"), NT("IterationStatement"), NT("ContinueStatement"), NT("BreakStatement"), NT("ReturnStatement"), NT("WithStatement"), NT("LabelledStatement"), NT("SwitchStatement"), NT("ThrowStatement"), NT("TryStatement"), NT("DebuggerStatement")>>)>>)
      [] name = "Block" ->
        Diagram(<<Sequence(<<T("{"), Optional(<<NT("StatementList")>>), T("}")>>)>>)
      [] name = "StatementList" ->
        Diagram(<<OneOrMore(<<NT("Statement")>>)>>)
      [] name = "VariableStatement" ->
        Diagram(<<Sequence(<<T("var"), NT("VariableDeclarationList"), T(";")>>)>>)
      [] name = "VariableDeclarationList" ->
        Diagram(<<Sequence(<<NT("VariableDeclaration"), ZeroOrMore(<<Sequence(<<T(","), NT("VariableDeclaration")>>)>>)>>)>>)
      [] name = "VariableDeclarationListNoIn" ->
        Diagram(<<Sequence(<<NT("VariableDeclarationNoIn"), ZeroOrMore(<<Sequence(<<T(","), NT("VariableDeclarationNoIn")>>)>>)>>)>>)
      [] name = "VariableDeclaration" ->
        Diagram(<<Sequence(<<NT("Identifier"), Optional(<<NT("Initialiser")>>)>>)>>)
      [] name = "VariableDeclarationNoIn" ->
        Diagram(<<Sequence(<<NT("Identifier"), Optional(<<NT("InitialiserNoIn")>>)>>)>>)
      [] name = "Initialiser" ->
        Diagram(<<Sequence(<<T("="), NT("AssignmentExpression")>>)>>)
      [] name = "InitialiserNoIn" ->
        Diagram(<<Sequence(<<T("="), NT("AssignmentExpressionNoIn")>>)>>)
      [] name = "EmptyStatement" ->
        Diagram(<<T(";")>>)
      [] name = "ExpressionStatement" ->
        Diagram(<<Sequence(<<Sequence(<<NT("Expression"), Comment(<<"lookahead \\u2209 { or function">>)>>), T(";")>>)>>)
      [] name = "IfStatement" ->
        Diagram(<<Choice(<<0, Sequence(<<T("if"), T("("), NT("Expression"), T(")"), NT("Statement"), T("else"), NT("Statement")>>), Sequence(<<T("if"), T("("), NT("Expression"), T(")"), NT("Statement")>>)>>)>>)
      [] name = "IterationStatement" ->
        Diagram(<<Choice(<<0, Sequence(<<T("do"), NT("Statement"), T("while"), T("("), NT("Expression"), T(")"), T(";")>>), Sequence(<<T("while"), T("("), NT("Expression"), T(")"), NT("Statement")>>), Sequence(<<T("for"), T("("), Optional(<<NT("ExpressionNoIn")>>), T(";"), Optional(<<NT("Expression")>>), T(";"), Optional(<<NT("Expression")>>), T(")"), NT("Statement")>>), Sequence(<<T("for"), T("("), T("var"), NT("VariableDeclarationListNoIn"), T(";"), Optional(<<NT("Expression")>>), T(";"), Optional(<<NT("Expression")>>), T(")"), NT("Statement")>>), Sequence(<<T("for"), T("("), NT("LeftHandSideExpression"), T("in"), NT("Expression"), T(")"), NT("Statement")>>), Sequence(<<T("for"), T("("), T("var"), NT("VariableDeclarationNoIn"), T("in"), NT("Expression"), T(")"), NT("Statement")>>)>>)>>)
      [] name = "ContinueStatement" ->
        Diagram(<<Choice(<<0, Sequence(<<T("continue"), T(";")>>), Sequence(<<T("continue"), Comment(<<"no LineTerminator">>), NT("Identifier"), T(";")>>)>>)>>)
      [] name = "BreakStatement" ->
        Diagram(<<Choice(<<0, Sequence(<<T("break"), T(";")>>), Sequence(<<T("break"), Comment(<<"no LineTerminator">>), NT("Identifier"), T(";")>>)>>)>>)
      [] name = "ReturnStatement" ->
        Diagram(<<Choice(<<0, Sequence(<<T("return"), T(";")>>), Sequence(<<T("return"), Comment(<<"no LineTerminator">>), NT("Expression"), T(";")>>)>>)>>)
      [] name = "WithStatement" ->
        Diagram(<<Sequence(<<T("with"), T("("), NT("Expression"), T(")"), NT("Statement")>>)>>)
      [] name = "SwitchStatement" ->
        Diagram(<<Sequence(<<T("switch"), T("("), NT("Expression"), T(")"), NT("CaseBlock")>>)>>)
      [] name = "CaseBlock" ->
        Diagram(<<Choice(<<0, Sequence(<<T("{"), Optional(<<NT("CaseClauses")>>), T("}")>>), Sequence(<<T("{"), Optional(<<NT("CaseClauses")>>), NT("DefaultClause"), Optional(<<NT("CaseClauses")>>), T("}")>>)>>)>>)
      [] name = "CaseClauses" ->
        Diagram(<<OneOrMore(<<NT("CaseClause")>>)>>)
      [] name = "CaseClause" ->
        Diagram(<<Sequence(<<T("case"), NT("Expression"), T(":"), Optional(<<NT("StatementList")>>)>>)>>)
      [] name = "DefaultClause" ->
        Diagram(<<Sequence(<<T("default"), T(":"), Optional(<<NT("StatementList")>>)>>)>>)
      [] name = "LabelledStatement" ->
        Diagram(<<Sequence(<<NT("Identifier"), T(":"), NT("Statement")>>)>>)
      [] name = "ThrowStatement" ->
        Diagram(<<Sequence(<<T("throw"), Comment(<<"no LineTerminator">>), NT("Expression"), T(";")>>)>>)
      [] name = "TryStatement" ->
        Diagram(<<Choice(<<0, Sequence(<<T("try"), NT("Block"), NT("Catch")>>), Sequence(<<T("try"), NT("Block"), NT("Finally")>>), Sequence(<<T("try"), NT("Block"), NT("Catch"), NT("Finally")>>)>>)>>)
      [] name = "Catch" ->
        Diagram(<<Sequence(<<T("catch"), T("("), NT("Identifier"), T(")"), NT("Block")>>)>>)
      [] name = "Finally" ->
        Diagram(<<Sequence(<<T("finally"), NT("Block")>>)>>)
      [] name = "DebuggerStatement" ->
        Diagram(<<Sequence(<<T("debugger"), T(";")>>)>>)
      [] name = "FunctionDeclaration" ->
        Diagram(<<Sequence(<<T("function"), NT("Identifier"), T("("), Optional(<<NT("FormalParameterList")>>), T(")"), T("{"), NT("FunctionBody"), T("}")>>)>>)
      [] name = "FunctionExpression" ->
        Diagram(<<Sequence(<<T("function"), Optional(<<NT("Identifier")>>), T("("), Optional(<<NT("FormalParameterList")>>), T(")"), T("{"), NT("FunctionBody"), T("}")>>)>>)
      [] name = "FormalParameterList" ->
        Diagram(<<Sequence(<<NT("Identifier"), ZeroOrMore(<<Sequence(<<T(","), NT("Identifier")>>)>>)>>)>>)
      [] name = "FunctionBody" ->
        Diagram(<<Optional(<<NT("SourceElements")>>)>>)
      [] name = "Program" ->
        Diagram(<<Optional(<<NT("SourceElements")>>)>>)
      [] name = "SourceElements" ->
        Diagram(<<OneOrMore(<<NT("SourceElement")>>)>>)
      [] name = "SourceElement" ->
        Diagram(<<Choice(<<0, NT("Statement"), NT("FunctionDeclaration")>>)>>)

(***************************************************************************)
(* Section organization of the two editions.  An object literal is the     *)
(* sequence of its own properties [key, value] in source order.            *)
(***************************************************************************)
SECTION_ORDER_ES2025 ==
    <<"lexical", "expressions", "statements", "functions", "modules">>

SECTION_TITLES_ES2025 ==
    <<
    [key |-> "lexical", value |-> "A.1 Lexical Grammar"],
    [key |-> "expressions", value |-> "A.2 Expressions"],
    [key |-> "statements", value |-> "A.3 Statements"],
    [key |-> "functions", value |-> "A.4 Functions and Classes"],
    [key |-> "modules", value |-> "A.5 Scripts and Modules"]
    >>

SECTION_RULES_ES2025 ==
    <<
    [key |-> "lexical", value |->
        <<
          "SourceCharacter", "InputElementDiv", "InputElementRegExp",
          "InputElementRegExpOrTemplateTail", "InputElementTemplateTail",
          "WhiteSpace", "LineTerminator", "LineTerminatorSequence", "Comment",
          "MultiLineComment", "SingleLineComment", "HashbangComment",
          "CommonToken", "PrivateIdentifier", "IdentifierName",
          "IdentifierStart", "IdentifierPart", "IdentifierStartChar",
          "IdentifierPartChar", "UnicodeIDStart", "UnicodeIDContinue",
          "ReservedWord", "Punctuator", "OptionalChainingPunctuator",
          "DivPunctuator", "RightBracePunctuator", "NullLiteral",
          "BooleanLiteral", "NumericLiteral", "DecimalLiteral",
          "DecimalIntegerLiteral", "DecimalDigits", "DecimalDigit",
          "NonZeroDigit", "NumericLiteralSeparator", "ExponentPart",
          "ExponentIndicator", "SignedInteger", "BigIntLiteralSuffix",
          "DecimalBigIntegerLiteral", "NonDecimalIntegerLiteral",
          "BinaryIntegerLiteral", "BinaryDigits", "BinaryDigit",
          "OctalIntegerLiteral", "OctalDigits", "OctalDigit",
          "HexIntegerLiteral", "HexDigits", "HexDigit",
          "LegacyOctalIntegerLiteral", "StringLiteral",
          "DoubleStringCharacters", "SingleStringCharacters",
          "DoubleStringCharacter", "SingleStringCharacter",
          "LineContinuation", "EscapeSequence", "CharacterEscapeSequence",
          "SingleEscapeCharacter", "HexEscapeSequence",
          "UnicodeEscapeSequence", "Hex4Digits", "RegularExpressionLiteral",
          "RegularExpressionBody", "RegularExpressionChars",
          "RegularExpressionFlags", "Template", "NoSubstitutionTemplate",
          "TemplateHead", "TemplateSubstitutionTail", "TemplateMiddle",
          "TemplateTail", "TemplateCharacters"
        >>],
    [key |-> "expressions", value |->
        <<
          "IdentifierReference", "BindingIdentifier", "LabelIdentifier",
          "Identifier", "PrimaryExpression",
          "CoverParenthesizedExpressionAndArrowParameterList",
          "ParenthesizedExpression", "Literal", "ArrayLiteral", "ElementList",
          "Elision", "SpreadElement", "ObjectLiteral",
          "PropertyDefinitionList", "PropertyDefinition", "PropertyName",
          "LiteralPropertyName", "ComputedPropertyName",
          "CoverInitializedName", "Initializer", "TemplateLiteral",
          "SubstitutionTemplate", "TemplateSpans", "TemplateMiddleList",
          "MemberExpression", "SuperProperty", "MetaProperty", "NewTarget",
          "ImportMeta", "NewExpression", "CallExpression", "SuperCall",
          "ImportCall", "Arguments", "ArgumentList", "OptionalExpression",
          "OptionalChain", "LeftHandSideExpression", "UpdateExpression",
          "UnaryExpression", "ExponentiationExpression",
          "MultiplicativeExpression", "MultiplicativeOperator",
          "AdditiveExpression", "ShiftExpression", "RelationalExpression",
          "EqualityExpression", "BitwiseANDExpression",
          "BitwiseXORExpression", "BitwiseORExpression",
          "LogicalANDExpression", "LogicalORExpression", "CoalesceExpression",
          "CoalesceExpressionHead", "ShortCircuitExpression",
          "ConditionalExpression", "AssignmentExpression",
          "AssignmentOperator", "AssignmentPattern",
          "ObjectAssignmentPattern", "ArrayAssignmentPattern", "Expression"
        >>],
    [key |-> "statements", value |->
        <<
          "Statement", "Declaration", "HoistableDeclaration",
          "BreakableStatement", "BlockStatement", "Block", "StatementList",
          "StatementListItem", "LexicalDeclaration", "LetOrConst",
          "BindingList", "LexicalBinding", "VariableStatement",
          "VariableDeclarationList", "VariableDeclaration", "BindingPattern",
          "ObjectBindingPattern", "ArrayBindingPattern",
          "BindingRestProperty", "BindingPropertyList", "BindingElementList",
          "BindingElisionElement", "BindingProperty", "BindingElement",
          "SingleNameBinding", "BindingRestElement", "EmptyStatement",
          "ExpressionStatement", "IfStatement", "IterationStatement",
          "DoWhileStatement", "WhileStatement", "ForStatement",
          "ForInOfStatement", "ForDeclaration", "ForBinding",
          "ContinueStatement", "BreakStatement", "ReturnStatement",
          "WithStatement", "SwitchStatement", "CaseBlock", "CaseClauses",
          "CaseClause", "DefaultClause", "LabelledStatement", "LabelledItem",
          "ThrowStatement", "TryStatement", "Catch", "Finally",
          "CatchParameter", "DebuggerStatement"
        >>],
    [key |-> "functions", value |->
        <<
          "UniqueFormalParameters", "FormalParameters", "FormalParameterList",
          "FunctionRestParameter", "FormalParameter", "FunctionDeclaration",
          "FunctionExpression", "FunctionBody", "FunctionStatementList",
          "ArrowFunction", "ArrowParameters", "ConciseBody", "ExpressionBody",
          "ArrowFormalParameters", "AsyncArrowFunction", "AsyncConciseBody",
          "AsyncArrowBindingIdentifier",
          "CoverCallExpressionAndAsyncArrowHead", "AsyncArrowHead",
          "MethodDefinition", "PropertySetParameterList",
          "GeneratorDeclaration", "GeneratorExpression", "GeneratorMethod",
          "GeneratorBody", "YieldExpression", "AsyncGeneratorDeclaration",
          "AsyncGeneratorExpression", "AsyncGeneratorMethod",
          "AsyncGeneratorBody", "AsyncFunctionDeclaration",
          "AsyncFunctionExpression", "AsyncMethod", "AsyncFunctionBody",
          "AwaitExpression", "ClassDeclaration", "ClassExpression",
          "ClassTail", "ClassHeritage", "ClassBody", "ClassElementList",
          "ClassElement", "FieldDefinition", "ClassElementName",
          "ClassStaticBlock", "ClassStaticBlockBody",
          "ClassStaticBlockStatementList"
        >>],
    [key |-> "modules", value |->
        <<
          "Script", "ScriptBody", "Module", "ModuleBody", "ModuleItemList",
          "ModuleItem", "ModuleExportName", "ImportDeclaration",
          "ImportClause", "ImportedDefaultBinding", "NameSpaceImport",
          "NamedImports", "FromClause", "ImportsList", "ImportSpecifier",
          "ModuleSpecifier", "ImportedBinding", "WithClause", "WithEntries",
          "AttributeKey", "ExportDeclaration", "ExportFromClause",
          "NamedExports", "ExportsList", "ExportSpecifier"
        >>]
    >>

SECTION_ORDER_ES5 ==
    <<"source", "lexical", "identifiers", "punctuators", "literals", "strings", "regex", "expressions", "statements", "functions", "program">>

SECTION_TITLES_ES5 ==
    <<
    [key |-> "source", value |-> "\\u00A76 Source Text"],
    [key |-> "lexical", value |-> "\\u00A77 Lexical Conventions"],
    [key |-> "identifiers", value |-> "\\u00A77.6 Identifiers"],
    [key |-> "punctuators", value |-> "\\u00A77.7 Punctuators"],
    [key |-> "literals", value |-> "\\u00A77.8 Literals (Numeric)"],
    [key |-> "strings", value |-> "\\u00A77.8.4 String Literals"],
    [key |-> "regex", value |-> "\\u00A77.8.5 Regular Expression Literals"],
    [key |-> "expressions", value |-> "\\u00A711 Expressions"],
    [key |-> "statements", value |-> "\\u00A712 Statements"],
    [key |-> "functions", value |-> "\\u00A713 Function Definition"],
    [key |-> "program", value |-> "\\u00A714 Program"]
    >>

SECTION_RULES_ES5 ==
    <<
    [key |-> "source", value |->
        <<
          "SourceCharacter"
        >>],
    [key |-> "lexical", value |->
        <<
          "InputElementDiv", "InputElementRegExp", "WhiteSpace",
          "LineTerminator", "LineTerminatorSequence", "Comment",
          "MultiLineComment", "MultiLineCommentChars",
          "PostAsteriskCommentChars", "MultiLineNotAsteriskChar",
          "MultiLineNotForwardSlashOrAsteriskChar", "SingleLineComment",
          "SingleLineCommentChars", "SingleLineCommentChar", "Token"
        >>],
    [key |-> "identifiers", value |->
        <<
          "Identifier", "IdentifierName", "IdentifierStart", "IdentifierPart",
          "UnicodeLetter", "UnicodeCombiningMark", "UnicodeDigit",
          "UnicodeConnectorPunctuation", "ReservedWord", "Keyword",
          "FutureReservedWord"
        >>],
    [key |-> "punctuators", value |->
        <<
          "Punctuator", "DivPunctuator"
        >>],
    [key |-> "literals", value |->
        <<
          "Literal", "NullLiteral", "BooleanLiteral", "NumericLiteral",
          "DecimalLiteral", "DecimalIntegerLiteral", "DecimalDigits",
          "DecimalDigit", "NonZeroDigit", "ExponentPart", "ExponentIndicator",
          "SignedInteger", "HexIntegerLiteral", "HexDigit"
        >>],
    [key |-> "strings", value |->
        <<
          "StringLiteral", "DoubleStringCharacters", "SingleStringCharacters",
          "DoubleStringCharacter", "SingleStringCharacter",
          "LineContinuation", "EscapeSequence", "CharacterEscapeSequence",
          "SingleEscapeCharacter", "NonEscapeCharacter", "EscapeCharacter",
          "HexEscapeSequence", "UnicodeEscapeSequence"
        >>],
    [key |-> "regex", value |->
        <<
          "RegularExpressionLiteral", "RegularExpressionBody",
          "RegularExpressionChars", "RegularExpressionFirstChar",
          "RegularExpressionChar", "RegularExpressionBackslashSequence",
          "RegularExpressionNonTerminator", "RegularExpressionClass",
          "RegularExpressionClassChars", "RegularExpressionClassChar",
          "RegularExpressionFlags"
        >>],
    [key |-> "expressions", value |->
        <<
          "PrimaryExpression", "ArrayLiteral", "ElementList", "Elision",
          "ObjectLiteral", "PropertyNameAndValueList", "PropertyAssignment",
          "PropertyName", "PropertySetParameterList", "MemberExpression",
          "NewExpression", "CallExpression", "Arguments", "ArgumentList",
          "LeftHandSideExpression", "PostfixExpression", "UnaryExpression",
          "MultiplicativeExpression", "AdditiveExpression", "ShiftExpression",
          "RelationalExpression", "RelationalExpressionNoIn",
          "EqualityExpression", "EqualityExpressionNoIn",
          "BitwiseANDExpression", "BitwiseANDExpressionNoIn",
          "BitwiseXORExpression", "BitwiseXORExpressionNoIn",
          "BitwiseORExpression", "BitwiseORExpressionNoIn",
          "LogicalANDExpression", "LogicalANDExpressionNoIn",
          "LogicalORExpression", "LogicalORExpressionNoIn",
          "ConditionalExpression", "ConditionalExpressionNoIn",
          "AssignmentExpression", "AssignmentExpressionNoIn",
          "AssignmentOperator", "Expression", "ExpressionNoIn"
        >>],
    [key |-> "statements", value |->
        <<
          "Statement", "Block", "StatementList", "VariableStatement",
          "VariableDeclarationList", "VariableDeclarationListNoIn",
          "VariableDeclaration", "VariableDeclarationNoIn", "Initialiser",
          "InitialiserNoIn", "EmptyStatement", "ExpressionStatement",
          "IfStatement", "IterationStatement", "ContinueStatement",
          "BreakStatement", "ReturnStatement", "WithStatement",
          "SwitchStatement", "CaseBlock", "CaseClauses", "CaseClause",
          "DefaultClause", "LabelledStatement", "ThrowStatement",
          "TryStatement", "Catch", "Finally", "DebuggerStatement"
        >>],
    [key |-> "functions", value |->
        <<
          "FunctionDeclaration", "FunctionExpression", "FormalParameterList",
          "FunctionBody"
        >>],
    [key |-> "program", value |->
        <<
          "Program", "SourceElements", "SourceElement"
        >>]
    >>

(***************************************************************************)
(* EBNF_DEFINITIONS: each property holds the first line of its production  *)
(* text (the rest of the template literal is not read by any operation).   *)
(***************************************************************************)
EBNF_DEFINITIONS ==
    <<
    [key |-> "SourceCharacter", value |-> "SourceCharacter ::"],
    [key |-> "InputElementDiv", value |-> "InputElementDiv ::"],
    [key |-> "InputElementRegExp", value |-> "InputElementRegExp ::"],
    [key |-> "InputElementRegExpOrTemplateTail", value |-> "InputElementRegExpOrTemplateTail ::"],
    [key |-> "InputElementTemplateTail", value |-> "InputElementTemplateTail ::"],
    [key |-> "WhiteSpace", value |-> "WhiteSpace ::"],
    [key |-> "LineTerminator", value |-> "LineTerminator ::"],
    [key |-> "LineTerminatorSequence", value |-> "LineTerminatorSequence ::"],
    [key |-> "Comment", value |-> "Comment ::"],
    [key |-> "MultiLineComment", value |-> "MultiLineComment ::"],
    [key |-> "SingleLineComment", value |-> "SingleLineComment ::"],
    [key |-> "HashbangComment", value |-> "HashbangComment ::"],
    [key |-> "CommonToken", value |-> "CommonToken ::"],
    [key |-> "PrivateIdentifier", value |-> "PrivateIdentifier ::"],
    [key |-> "IdentifierName", value |-> "IdentifierName ::"],
    [key |-> "IdentifierStart", value |-> "IdentifierStart ::"],
    [key |-> "IdentifierPart", value |-> "IdentifierPart ::"],
    [key |-> "IdentifierStartChar", value |-> "IdentifierStartChar ::"],
    [key |-> "IdentifierPartChar", value |-> "IdentifierPartChar ::"],
    [key |-> "UnicodeIDStart", value |-> "UnicodeIDStart ::"],
    [key |-> "UnicodeIDContinue", value |-> "UnicodeIDContinue ::"],
    [key |-> "ReservedWord", value |-> "ReservedWord :: one of"],
    [key |-> "Punctuator", value |-> "Punctuator ::"],
    [key |-> "OptionalChainingPunctuator", value |-> "OptionalChainingPunctuator ::"],
    [key |-> "DivPunctuator", value |-> "DivPunctuator ::"],
    [key |-> "RightBracePunctuator", value |-> "RightBracePunctuator ::"],
    [key |-> "NullLiteral", value |-> "NullLiteral ::"],
    [key |-> "BooleanLiteral", value |-> "BooleanLiteral ::"],
    [key |-> "NumericLiteral", value |-> "NumericLiteral ::"],
    [key |-> "DecimalLiteral", value |-> "DecimalLiteral ::"],
    [key |-> "DecimalIntegerLiteral", value |-> "DecimalIntegerLiteral ::"],
    [key |-> "DecimalDigits", value |-> "DecimalDigits[Sep] ::"],
    [key |-> "DecimalDigit", value |-> "DecimalDigit :: one of"],
    [key |-> "NonZeroDigit", value |-> "NonZeroDigit :: one of"],
    [key |-> "NumericLiteralSeparator", value |-> "NumericLiteralSeparator ::"],
    [key |-> "ExponentPart", value |-> "ExponentPart[Sep] ::"],
    [key |-> "ExponentIndicator", value |-> "ExponentIndicator :: one of"],
    [key |-> "SignedInteger", value |-> "SignedInteger[Sep] ::"],
    [key |-> "BigIntLiteralSuffix", value |-> "BigIntLiteralSuffix ::"],
    [key |-> "DecimalBigIntegerLiteral", value |-> "DecimalBigIntegerLiteral ::"],
    [key |-> "NonDecimalIntegerLiteral", value |-> "NonDecimalIntegerLiteral[Sep] ::"],
    [key |-> "BinaryIntegerLiteral", value |-> "BinaryIntegerLiteral[Sep] ::"],
    [key |-> "BinaryDigits", value |-> "BinaryDigits[Sep] ::"],
    [key |-> "BinaryDigit", value |-> "BinaryDigit :: one of"],
    [key |-> "OctalIntegerLiteral", value |-> "OctalIntegerLiteral[Sep] ::"],
    [key |-> "OctalDigits", value |-> "OctalDigits[Sep] ::"],
    [key |-> "OctalDigit", value |-> "OctalDigit :: one of"],
    [key |-> "HexIntegerLiteral", value |-> "HexIntegerLiteral[Sep] ::"],
    [key |-> "HexDigits", value |-> "HexDigits[Sep] ::"],
    [key |-> "HexDigit", value |-> "HexDigit :: one of"],
    [key |-> "LegacyOctalIntegerLiteral", value |-> "LegacyOctalIntegerLiteral ::"],
    [key |-> "StringLiteral", value |-> "StringLiteral ::"],
    [key |-> "DoubleStringCharacters", value |-> "DoubleStringCharacters ::"],
    [key |-> "SingleStringCharacters", value |-> "SingleStringCharacters ::"],
    [key |-> "DoubleStringCharacter", value |-> "DoubleStringCharacter ::"],
    [key |-> "SingleStringCharacter", value |-> "SingleStringCharacter ::"],
    [key |-> "LineContinuation", value |-> "LineContinuation ::"],
    [key |-> "EscapeSequence", value |-> "EscapeSequence ::"],
    [key |-> "CharacterEscapeSequence", value |-> "CharacterEscapeSequence ::"],
    [key |-> "SingleEscapeCharacter", value |-> "SingleEscapeCharacter :: one of"],
    [key |-> "HexEscapeSequence", value |-> "HexEscapeSequence ::"],
    [key |-> "UnicodeEscapeSequence", value |-> "UnicodeEscapeSequence ::"],
    [key |-> "Hex4Digits", value |-> "Hex4Digits ::"],
    [key |-> "RegularExpressionLiteral", value |-> "RegularExpressionLiteral ::"],
    [key |-> "RegularExpressionBody", value |-> "RegularExpressionBody ::"],
    [key |-> "RegularExpressionChars", value |-> "RegularExpressionChars ::"],
    [key |-> "RegularExpressionFlags", value |-> "RegularExpressionFlags ::"],
    [key |-> "Template", value |-> "Template ::"],
    [key |-> "NoSubstitutionTemplate", value |-> "NoSubstitutionTemplate ::"],
    [key |-> "TemplateHead", value |-> "TemplateHead ::"],
    [key |-> "TemplateSubstitutionTail", value |-> "TemplateSubstitutionTail ::"],
    [key |-> "TemplateMiddle", value |-> "TemplateMiddle ::"],
    [key |-> "TemplateTail", value |-> "TemplateTail ::"],
    [key |-> "TemplateCharacters", value |-> "TemplateCharacters ::"],
    [key |-> "IdentifierReference", value |-> "IdentifierReference[Yield, Await] :"],
    [key |-> "BindingIdentifier", value |-> "BindingIdentifier[Yield, Await] :"],
    [key |-> "LabelIdentifier", value |-> "LabelIdentifier[Yield, Await] :"],
    [key |-> "Identifier", value |-> "Identifier :"],
    [key |-> "PrimaryExpression", value |-> "PrimaryExpression[Yield, Await] :"],
    [key |-> "CoverParenthesizedExpressionAndArrowParameterList", value |-> "CoverParenthesizedExpressionAndArrowParameterList[Yield, Await] :"],
    [key |-> "ParenthesizedExpression", value |-> "ParenthesizedExpression[Yield, Await] :"],
    [key |-> "Literal", value |-> "Literal :"],
    [key |-> "ArrayLiteral", value |-> "ArrayLiteral[Yield, Await] :"],
    [key |-> "ElementList", value |-> "ElementList[Yield, Await] :"],
    [key |-> "Elision", value |-> "Elision :"],
    [key |-> "SpreadElement", value |-> "SpreadElement[Yield, Await] :"],
    [key |-> "ObjectLiteral", value |-> "ObjectLiteral[Yield, Await] :"],
    [key |-> "PropertyDefinitionList", value |-> "PropertyDefinitionList[Yield, Await] :"],
    [key |-> "PropertyDefinition", value |-> "PropertyDefinition[Yield, Await] :"],
    [key |-> "PropertyName", value |-> "PropertyName[Yield, Await] :"],
    [key |-> "LiteralPropertyName", value |-> "LiteralPropertyName :"],
    [key |-> "ComputedPropertyName", value |-> "ComputedPropertyName[Yield, Await] :"],
    [key |-> "CoverInitializedName", value |-> "CoverInitializedName[Yield, Await] :"],
    [key |-> "Initializer", value |-> "Initializer[In, Yield, Await] :"],
    [key |-> "TemplateLiteral", value |-> "TemplateLiteral[Yield, Await, Tagged] :"],
    [key |-> "SubstitutionTemplate", value |-> "SubstitutionTemplate[Yield, Await, Tagged] :"],
    [key |-> "TemplateSpans", value |-> "TemplateSpans[Yield, Await, Tagged] :"],
    [key |-> "TemplateMiddleList", value |-> "TemplateMiddleList[Yield, Await, Tagged] :"],
    [key |-> "MemberExpression", value |-> "MemberExpression[Yield, Await] :"],
    [key |-> "SuperProperty", value |-> "SuperProperty[Yield, Await] :"],
    [key |-> "MetaProperty", value |-> "MetaProperty :"],
    [key |-> "NewTarget", value |-> "NewTarget :"],
    [key |-> "ImportMeta", value |-> "ImportMeta :"],
    [key |-> "NewExpression", value |-> "NewExpression[Yield, Await] :"],
    [key |-> "CallExpression", value |-> "CallExpression[Yield, Await] :"],
    [key |-> "SuperCall", value |-> "SuperCall[Yield, Await] :"],
    [key |-> "ImportCall", value |-> "ImportCall[Yield, Await] :"],
    [key |-> "Arguments", value |-> "Arguments[Yield, Await] :"],
    [key |-> "ArgumentList", value |-> "ArgumentList[Yield, Await] :"],
    [key |-> "OptionalExpression", value |-> "OptionalExpression[Yield, Await] :"],
    [key |-> "OptionalChain", value |-> "OptionalChain[Yield, Await] :"],
    [key |-> "LeftHandSideExpression", value |-> "LeftHandSideExpression[Yield, Await] :"],
    [key |-> "UpdateExpression", value |-> "UpdateExpression[Yield, Await] :"],
    [key |-> "UnaryExpression", value |-> "UnaryExpression[Yield, Await] :"],
    [key |-> "ExponentiationExpression", value |-> "ExponentiationExpression[Yield, Await] :"],
    [key |-> "MultiplicativeExpression", value |-> "MultiplicativeExpression[Yield, Await] :"],
    [key |-> "MultiplicativeOperator", value |-> "MultiplicativeOperator : one of"],
    [key |-> "AdditiveExpression", value |-> "AdditiveExpression[Yield, Await] :"],
    [key |-> "ShiftExpression", value |-> "ShiftExpression[Yield, Await] :"],
    [key |-> "RelationalExpression", value |-> "RelationalExpression[In, Yield, Await] :"],
    [key |-> "EqualityExpression", value |-> "EqualityExpression[In, Yield, Await] :"],
    [key |-> "BitwiseANDExpression", value |-> "BitwiseANDExpression[In, Yield, Await] :"],
    [key |-> "BitwiseXORExpression", value |-> "BitwiseXORExpression[In, Yield, Await] :"],
    [key |-> "BitwiseORExpression", value |-> "BitwiseORExpression[In, Yield, Await] :"],
    [key |-> "LogicalANDExpression", value |-> "LogicalANDExpression[In, Yield, Await] :"],
    [key |-> "LogicalORExpression", value |-> "LogicalORExpression[In, Yield, Await] :"],
    [key |-> "CoalesceExpression", value |-> "CoalesceExpression[In, Yield, Await] :"],
    [key |-> "CoalesceExpressionHead", value |-> "CoalesceExpressionHead[In, Yield, Await] :"],
    [key |-> "ShortCircuitExpression", value |-> "ShortCircuitExpression[In, Yield, Await] :"],
    [key |-> "ConditionalExpression", value |-> "ConditionalExpression[In, Yield, Await] :"],
    [key |-> "AssignmentExpression", value |-> "AssignmentExpression[In, Yield, Await] :"],
    [key |-> "AssignmentOperator", value |-> "AssignmentOperator : one of"],
    [key |-> "AssignmentPattern", value |-> "AssignmentPattern[Yield, Await] :"],
    [key |-> "ObjectAssignmentPattern", value |-> "ObjectAssignmentPattern[Yield, Await] :"],
    [key |-> "ArrayAssignmentPattern", value |-> "ArrayAssignmentPattern[Yield, Await] :"],
    [key |-> "Expression", value |-> "Expression[In, Yield, Await] :"],
    [key |-> "Statement", value |-> "Statement[Yield, Await, Return] :"],
    [key |-> "Declaration", value |-> "Declaration[Yield, Await] :"],
    [key |-> "HoistableDeclaration", value |-> "HoistableDeclaration[Yield, Await, Default] :"],
    [key |-> "BreakableStatement", value |-> "BreakableStatement[Yield, Await, Return] :"],
    [key |-> "BlockStatement", value |-> "BlockStatement[Yield, Await, Return] :"],
    [key |-> "Block", value |-> "Block[Yield, Await, Return] :"],
    [key |-> "StatementList", value |-> "StatementList[Yield, Await, Return] :"],
    [key |-> "StatementListItem", value |-> "StatementListItem[Yield, Await, Return] :"],
    [key |-> "LexicalDeclaration", value |-> "LexicalDeclaration[In, Yield, Await] :"],
    [key |-> "LetOrConst", value |-> "LetOrConst :"],
    [key |-> "BindingList", value |-> "BindingList[In, Yield, Await] :"],
    [key |-> "LexicalBinding", value |-> "LexicalBinding[In, Yield, Await] :"],
    [key |-> "VariableStatement", value |-> "VariableStatement[Yield, Await] :"],
    [key |-> "VariableDeclarationList", value |-> "VariableDeclarationList[In, Yield, Await] :"],
    [key |-> "VariableDeclaration", value |-> "VariableDeclaration[In, Yield, Await] :"],
    [key |-> "BindingPattern", value |-> "BindingPattern[Yield, Await] :"],
    [key |-> "ObjectBindingPattern", value |-> "ObjectBindingPattern[Yield, Await] :"],
    [key |-> "ArrayBindingPattern", value |-> "ArrayBindingPattern[Yield, Await] :"],
    [key |-> "BindingRestProperty", value |-> "BindingRestProperty[Yield, Await] :"],
    [key |-> "BindingPropertyList", value |-> "BindingPropertyList[Yield, Await] :"],
    [key |-> "BindingElementList", value |-> "BindingElementList[Yield, Await] :"],
    [key |-> "BindingElisionElement", value |-> "BindingElisionElement[Yield, Await] :"],
    [key |-> "BindingProperty", value |-> "BindingProperty[Yield, Await] :"],
    [key |-> "BindingElement", value |-> "BindingElement[Yield, Await] :"],
    [key |-> "SingleNameBinding", value |-> "SingleNameBinding[Yield, Await] :"],
    [key |-> "BindingRestElement", value |-> "BindingRestElement[Yield, Await] :"],
    [key |-> "EmptyStatement", value |-> "EmptyStatement :"],
    [key |-> "ExpressionStatement", value |-> "ExpressionStatement[Yield, Await] :"],
    [key |-> "IfStatement", value |-> "IfStatement[Yield, Await, Return] :"],
    [key |-> "IterationStatement", value |-> "IterationStatement[Yield, Await, Return] :"],
    [key |-> "DoWhileStatement", value |-> "DoWhileStatement[Yield, Await, Return] :"],
    [key |-> "WhileStatement", value |-> "WhileStatement[Yield, Await, Return] :"],
    [key |-> "ForStatement", value |-> "ForStatement[Yield, Await, Return] :"],
    [key |-> "ForInOfStatement", value |-> "ForInOfStatement[Yield, Await, Return] :"],
    [key |-> "ForDeclaration", value |-> "ForDeclaration[Yield, Await] :"],
    [key |-> "ForBinding", value |-> "ForBinding[Yield, Await] :"],
    [key |-> "ContinueStatement", value |-> "ContinueStatement[Yield, Await] :"],
    [key |-> "BreakStatement", value |-> "BreakStatement[Yield, Await] :"],
    [key |-> "ReturnStatement", value |-> "ReturnStatement[Yield, Await] :"],
    [key |-> "WithStatement", value |-> "WithStatement[Yield, Await, Return] :"],
    [key |-> "SwitchStatement", value |-> "SwitchStatement[Yield, Await, Return] :"],
    [key |-> "CaseBlock", value |-> "CaseBlock[Yield, Await, Return] :"],
    [key |-> "CaseClauses", value |-> "CaseClauses[Yield, Await, Return] :"],
    [key |-> "CaseClause", value |-> "CaseClause[Yield, Await, Return] :"],
    [key |-> "DefaultClause", value |-> "DefaultClause[Yield, Await, Return] :"],
    [key |-> "LabelledStatement", value |-> "LabelledStatement[Yield, Await, Return] :"],
    [key |-> "LabelledItem", value |-> "LabelledItem[Yield, Await, Return] :"],
    [key |-> "ThrowStatement", value |-> "ThrowStatement[Yield, Await] :"],
    [key |-> "TryStatement", value |-> "TryStatement[Yield, Await, Return] :"],
    [key |-> "Catch", value |-> "Catch[Yield, Await, Return] :"],
    [key |-> "Finally", value |-> "Finally[Yield, Await, Return] :"],
    [key |-> "CatchParameter", value |-> "CatchParameter[Yield, Await] :"],
    [key |-> "DebuggerStatement", value |-> "DebuggerStatement :"],
    [key |-> "UniqueFormalParameters", value |-> "UniqueFormalParameters[Yield, Await] :"],
    [key |-> "FormalParameters", value |-> "FormalParameters[Yield, Await] :"],
    [key |-> "FormalParameterList", value |-> "FormalParameterList[Yield, Await] :"],
    [key |-> "FunctionRestParameter", value |-> "FunctionRestParameter[Yield, Await] :"],
    [key |-> "FormalParameter", value |-> "FormalParameter[Yield, Await] :"],
    [key |-> "FunctionDeclaration", value |-> "FunctionDeclaration[Yield, Await, Default] :"],
    [key |-> "FunctionExpression", value |-> "FunctionExpression :"],
    [key |-> "FunctionBody", value |-> "FunctionBody[Yield, Await] :"],
    [key |-> "FunctionStatementList", value |-> "FunctionStatementList[Yield, Await] :"],
    [key |-> "ArrowFunction", value |-> "ArrowFunction[In, Yield, Await] :"],
    [key |-> "ArrowParameters", value |-> "ArrowParameters[Yield, Await] :"],
    [key |-> "ConciseBody", value |-> "ConciseBody[In] :"],
    [key |-> "ExpressionBody", value |-> "ExpressionBody[In, Await] :"],
    [key |-> "ArrowFormalParameters", value |-> "ArrowFormalParameters[Yield, Await] :"],
    [key |-> "AsyncArrowFunction", value |-> "AsyncArrowFunction[In, Yield, Await] :"],
    [key |-> "AsyncConciseBody", value |-> "AsyncConciseBody[In] :"],
    [key |-> "AsyncArrowBindingIdentifier", value |-> "AsyncArrowBindingIdentifier[Yield] :"],
    [key |-> "CoverCallExpressionAndAsyncArrowHead", value |-> "CoverCallExpressionAndAsyncArrowHead[Yield, Await] :"],
    [key |-> "AsyncArrowHead", value |-> "AsyncArrowHead :"],
    [key |-> "MethodDefinition", value |-> "MethodDefinition[Yield, Await] :"],
    [key |-> "PropertySetParameterList", value |-> "PropertySetParameterList :"],
    [key |-> "GeneratorDeclaration", value |-> "GeneratorDeclaration[Yield, Await, Default] :"],
    [key |-> "GeneratorExpression", value |-> "GeneratorExpression :"],
    [key |-> "GeneratorMethod", value |-> "GeneratorMethod[Yield, Await] :"],
    [key |-> "GeneratorBody", value |-> "GeneratorBody :"],
    [key |-> "YieldExpression", value |-> "YieldExpression[In, Await] :"],
    [key |-> "AsyncGeneratorDeclaration", value |-> "AsyncGeneratorDeclaration[Yield, Await, Default] :"],
    [key |-> "AsyncGeneratorExpression", value |-> "AsyncGeneratorExpression :"],
    [key |-> "AsyncGeneratorMethod", value |-> "AsyncGeneratorMethod[Yield, Await] :"],
    [key |-> "AsyncGeneratorBody", value |-> "AsyncGeneratorBody :"],
    [key |-> "AsyncFunctionDeclaration", value |-> "AsyncFunctionDeclaration[Yield, Await, Default] :"],
    [key |-> "AsyncFunctionExpression", value |-> "AsyncFunctionExpression :"],
    [key |-> "AsyncMethod", value |-> "AsyncMethod[Yield, Await] :"],
    [key |-> "AsyncFunctionBody", value |-> "AsyncFunctionBody :"],
    [key |-> "AwaitExpression", value |-> "AwaitExpression[Yield] :"],
    [key |-> "ClassDeclaration", value |-> "ClassDeclaration[Yield, Await, Default] :"],
    [key |-> "ClassExpression", value |-> "ClassExpression[Yield, Await] :"],
    [key |-> "ClassTail", value |-> "ClassTail[Yield, Await] :"],
    [key |-> "ClassHeritage", value |-> "ClassHeritage[Yield, Await] :"],
    [key |-> "ClassBody", value |-> "ClassBody[Yield, Await] :"],
    [key |-> "ClassElementList", value |-> "ClassElementList[Yield, Await] :"],
    [key |-> "ClassElement", value |-> "ClassElement[Yield, Await] :"],
    [key |-> "FieldDefinition", value |-> "FieldDefinition[Yield, Await] :"],
    [key |-> "ClassElementName", value |-> "ClassElementName[Yield, Await] :"],
    [key |-> "ClassStaticBlock", value |-> "ClassStaticBlock :"],
    [key |-> "ClassStaticBlockBody", value |-> "ClassStaticBlockBody :"],
    [key |-> "ClassStaticBlockStatementList", value |-> "ClassStaticBlockStatementList :"],
    [key |-> "Script", value |-> "Script :"],
    [key |-> "ScriptBody", value |-> "ScriptBody :"],
    [key |-> "Module", value |-> "Module :"],
    [key |-> "ModuleBody", value |-> "ModuleBody :"],
    [key |-> "ModuleItemList", value |-> "ModuleItemList :"],
    [key |-> "ModuleItem", value |-> "ModuleItem :"],
    [key |-> "ModuleExportName", value |-> "ModuleExportName :"],
    [key |-> "ImportDeclaration", value |-> "ImportDeclaration :"],
    [key |-> "ImportClause", value |-> "ImportClause :"],
    [key |-> "ImportedDefaultBinding", value |-> "ImportedDefaultBinding :"],
    [key |-> "NameSpaceImport", value |-> "NameSpaceImport :"],
    [key |-> "NamedImports", value |-> "NamedImports :"],
    [key |-> "FromClause", value |-> "FromClause :"],
    [key |-> "ImportsList", value |-> "ImportsList :"],
    [key |-> "ImportSpecifier", value |-> "ImportSpecifier :"],
    [key |-> "ModuleSpecifier", value |-> "ModuleSpecifier :"],
    [key |-> "ImportedBinding", value |-> "ImportedBinding :"],
    [key |-> "WithClause", value |-> "WithClause :"],
    [key |-> "WithEntries", value |-> "WithEntries :"],
    [key |-> "AttributeKey", value |-> "AttributeKey :"],
    [key |-> "ExportDeclaration", value |-> "ExportDeclaration :"],
    [key |-> "ExportFromClause", value |-> "ExportFromClause :"],
    [key |-> "NamedExports", value |-> "NamedExports :"],
    [key |-> "ExportsList", value |-> "ExportsList :"],
    [key |-> "ExportSpecifier", value |-> "ExportSpecifier :"]
    >>

(***************************************************************************)
(* Map and object semantics                                                *)
(***************************************************************************)
\* new Map(): the entries [key, value] in insertion order
EmptyMap == << >>

MapHas(m, k) == \E i \in 1..Len(m) : m[i].key = k

\* Map.prototype.get
MapGet(m, k) ==
    IF MapHas(m, k)
    THEN m[CHOOSE i \in 1..Len(m) : m[i].key = k].value
    ELSE Undefined

\* Mutant: a present key keeps its value, the first write wins.
MapSetKeepFirst(m, k, v) ==
    IF MapHas(m, k) THEN m ELSE Append(m, [key |-> k, value |-> v])

\* Map.prototype.set: a present key keeps its place and takes the new value
MapSet(m, k, v) ==
    IF MapHas(m, k)
    THEN [i \in 1..Len(m) |-> IF m[i].key = k THEN [key |-> k, value |-> v] ELSE m[i]]
    ELSE Append(m, [key |-> k, value |-> v])

\* Array.from(m.keys())
MapKeys(m) == [i \in 1..Len(m) |-> m[i].key]

\* Object.keys(o): the own properties, in insertion order
ObjectKeys(o) == [i \in 1..Len(o) |-> o[i].key]

\* the properties every object literal inherits from Object.prototype
ObjectPrototypeKeys ==
    {"constructor", "toString", "toLocaleString", "valueOf", "hasOwnProperty",
     "isPrototypeOf", "propertyIsEnumerable", "__proto__"}

\* o[k]: the own property, else the inherited one, else undefined
ObjectGet(o, k) ==
    IF \E i \in 1..Len(o) : o[i].key = k
    THEN o[CHOOSE i \in 1..Len(o) : o[i].key = k].value
    ELSE IF k \in ObjectPrototypeKeys
         THEN [type |-> "inherited", name |-> k]
         ELSE Undefined

\* if (!x): undefined is falsy, a function or an object is truthy
Truthy(x) == x.type # "undefined"

ToSet(s) == {s[i] : i \in 1..Len(s)}

(***************************************************************************)
(* The modules                                                             *)
(***************************************************************************)
Editions == {"ES2025", "ES5.1"}

Modules == Editions \cup {"EBNF"}

\* A minimal registry, used to exercise the module's functions on a rule set
\* small enough to read: Digit and Number, with a matching EBNF table.
RuleStatementsMinimal == <<"Digit", "Number">>

BodyMinimal(name) ==
    CASE name = "Digit" -> Choice(<<0, T("0"), T("1")>>)
      [] name = "Number" -> OneOrMore(<<NT("Digit")>>)

EBNF_DEFINITIONS_Minimal ==
    <<[key |-> "Digit", value |-> "Digit ::"],
      [key |-> "Number", value |-> "Number ::"]>>

\* The minimal registry with Digit defined a second time, after Number:
\* rules.set("Digit", ...); rules.set("Number", ...); rules.set("Digit", ...)
RuleStatementsRedefined == <<"Digit", "Number", "Digit">>

\* the body of the second definition of Digit
BodyRedefinedDigit == Choice(<<0, T("0"), T("1"), T("2")>>)

\* Mutant: the module's first rules.set statement is written twice.
RuleStatementsFirstTwice(e) ==
    CASE e = "ES2025" -> <<RuleStatementsES2025[1]>> \o RuleStatementsES2025
      [] e = "ES5.1" -> <<RuleStatementsES5[1]>> \o RuleStatementsES5
      [] e = "Redefined" -> <<"Digit">> \o RuleStatementsRedefined
      [] OTHER -> <<"Digit">> \o RuleStatementsMinimal

\* the names of the module's rules.set statements, in source order
RuleStatements(e) ==
    CASE e = "ES2025" -> RuleStatementsES2025
      [] e = "ES5.1" -> RuleStatementsES5
      [] e = "Redefined" -> RuleStatementsRedefined
      [] OTHER -> RuleStatementsMinimal

Body(e, name) ==
    CASE e = "ES2025" -> BodyES2025(name)
      [] e = "ES5.1" -> BodyES5(name)
      [] OTHER -> BodyMinimal(name)

\* the body of the arrow function that statement i of the module creates
StatementBody(e, i) ==
    IF e = "Redefined" /\ i = 3 THEN BodyRedefinedDigit
    ELSE Body(e, RuleStatements(e)[i])

\* type SectionId = "lexical" | ...
SectionIdES2025 == {"lexical", "expressions", "statements", "functions", "modules"}

SectionIdES5 ==
    {"source", "lexical", "identifiers", "punctuators", "literals", "strings",
     "regex", "expressions", "statements", "functions", "program"}

SectionId(e) == IF e = "ES2025" THEN SectionIdES2025 ELSE SectionIdES5

\* Mutant: the last section is missing from the order.
SECTION_ORDER_WithoutLast(e) ==
    IF e = "ES2025"
    THEN SubSeq(SECTION_ORDER_ES2025, 1, Len(SECTION_ORDER_ES2025) - 1)
    ELSE SubSeq(SECTION_ORDER_ES5, 1, Len(SECTION_ORDER_ES5) - 1)

SECTION_ORDER(e) == IF e = "ES2025" THEN SECTION_ORDER_ES2025 ELSE SECTION_ORDER_ES5

SECTION_TITLES(e) == IF e = "ES2025" THEN SECTION_TITLES_ES2025 ELSE SECTION_TITLES_ES5

\* Mutant: an edition's module carries the section lists of the other edition.
SECTION_RULES_OtherEdition(e) ==
    IF e = "ES2025" THEN SECTION_RULES_ES5 ELSE SECTION_RULES_ES2025

SECTION_RULES(e) == IF e = "ES2025" THEN SECTION_RULES_ES2025 ELSE SECTION_RULES_ES5

\* the arrow function that statement i of edition e's module creates
Thunk(e, i) == [type |-> "thunk", edition |-> e, stmt |-> i]

\* Mutant: every arrow function draws the annotation of a missing rule.
InvokeStub(thunk) ==
    Evaluate(Diagram(<<Comment(<<"No factory defined for "
        \o RuleStatements(thunk.edition)[thunk.stmt]>>)>>))

\* factory(): evaluates the arrow function's body
Invoke(thunk) == Evaluate(StatementBody(thunk.edition, thunk.stmt))

\* Mutant: the registered value is the evaluated body, rules.set(name, body()).
RegisterRuleEager(st, e, i) ==
    [map |-> MapSet(st.map, RuleStatements(e)[i], Invoke(Thunk(e, i))),
     invoked |-> Append(st.invoked, Thunk(e, i))]

\* rules.set("<name>", () => Diagram(...)): creates the arrow function and
\* stores it; st.invoked lists the arrow functions run so far
RegisterRule(st, e, i) ==
    [map |-> MapSet(st.map, RuleStatements(e)[i], Thunk(e, i)),
     invoked |-> st.invoked]

\* the module body's statements lo..hi, run in source order from state st
\* (st is a state already reached: Len(st.map) >= 0)
RECURSIVE EvaluateStatements(_, _, _, _)
EvaluateStatements(st, e, lo, hi) ==
    IF lo > hi \/ Len(st.map) < 0 THEN st
    ELSE IF lo = hi THEN RegisterRule(st, e, lo)
    ELSE LET mid == (lo + hi) \div 2 IN
         EvaluateStatements(EvaluateStatements(st, e, lo, mid), e, mid + 1, hi)

\* Mutant: the last rules.set statement of the module is missing.
EvaluateModuleShort(e) ==
    EvaluateStatements([map |-> EmptyMap, invoked |-> << >>], e,
                       1, Len(RuleStatements(e)) - 1)

\* const rules = new Map(), then every rules.set statement of the module
EvaluateModule(e) ==
    EvaluateStatements([map |-> EmptyMap, invoked |-> << >>], e,
                       1, Len(RuleStatements(e)))

\* the registry a module holds once its body has run to the end
RegistryES2025 == EvaluateModule("ES2025")

RegistryES5 == EvaluateModule("ES5.1")

ModuleRun(e) == IF e = "ES2025" THEN RegistryES2025 ELSE RegistryES5

(***************************************************************************)
(* Exported accessors                                                      *)
(***************************************************************************)
\* Mutant: a blank in front of the name is ignored.
getRuleFactoryLenient(e, name) ==
    MapGet(rules[e],
           IF Len(name) > 0 /\ SubSeq(name, 1, 1) = " "
           THEN SubSeq(name, 2, Len(name)) ELSE name)

\* getRuleFactory(name)
getRuleFactory(e, name) == MapGet(rules[e], name)

\* Mutant: a missing rule is an error instead of a placeholder.
createRuleDiagramThrowing(e, name) ==
    LET factory == MapGet(rules[e], name) IN
    IF ~Truthy(factory)
    THEN [outcome |-> Throw(Error("Error", "No factory defined for " \o name)),
          invoked |-> << >>]
    ELSE [outcome |-> Invoke(factory), invoked |-> <<factory>>]

\* Mutant: a name the edition does not register is looked up in the other
\* edition's registry.
createRuleDiagramAnyEdition(e, name) ==
    LET other == IF e = "ES2025" THEN "ES5.1" ELSE "ES2025"
        factory == IF MapHas(rules[e], name) THEN MapGet(rules[e], name)
                   ELSE MapGet(rules[other], name)
    IN
    IF ~Truthy(factory)
    THEN [outcome |-> Evaluate(Diagram(<<Comment(<<"No factory defined for " \o name>>)>>)),
          invoked |-> << >>]
    ELSE [outcome |-> Invoke(factory), invoked |-> <<factory>>]

\* Mutant: the references of the rule's body are resolved eagerly, the arrow
\* function of each referenced rule being run as well.
createRuleDiagramEager(e, name) ==
    LET factory == MapGet(rules[e], name)
        names == References(Body(e, name))
        refs == {k \in 1..Len(rules[e]) : rules[e][k].key \in names}
    IN
    IF ~Truthy(factory)
    THEN [outcome |-> Evaluate(Diagram(<<Comment(<<"No factory defined for " \o name>>)>>)),
          invoked |-> << >>]
    ELSE [outcome |-> Invoke(factory),
          invoked |-> <<factory>> \o
              [j \in 1..Cardinality(refs) |->
                  rules[e][CHOOSE k \in refs :
                      Cardinality({x \in refs : x < k}) = j - 1].value]]

\* createRuleDiagram(name)
\*   outcome: what the call returns or throws
\*   invoked: the arrow functions the call ran, in order
createRuleDiagram(e, name) ==
    LET factory == MapGet(rules[e], name) IN
    IF ~Truthy(factory)
    THEN [outcome |-> Evaluate(Diagram(<<Comment(<<"No factory defined for " \o name>>)>>)),
          invoked |-> << >>]
    ELSE [outcome |-> Invoke(factory), invoked |-> <<factory>>]

\* Mutant: the names are enumerated from the other module's registry.
getDiagramRuleNamesOtherRegistry == MapKeys(rules["ES5.1"])

\* getDiagramRuleNames(), exported by the ES2025 module only
getDiagramRuleNames == MapKeys(rules["ES2025"])

\* getEbnfDefinition(name)
getEbnfDefinition(name) == ObjectGet(ebnf, name)

\* Mutant: enumerates the definitions' texts, Object.values, not their names.
getEbnfRuleNamesValues == [i \in 1..Len(ebnf) |-> ebnf[i].value]

\* getEbnfRuleNames()
getEbnfRuleNames == ObjectKeys(ebnf)

(***************************************************************************)
(* Actions                                                                 *)
(***************************************************************************)
\* the arrow function invocations a behaviour is followed for
MaxRuns == 2

NoCall == [type |-> "none"]

\* no App component is mounted
NoApp == [mounted |-> "none"]

Array(s) == [type |-> "array", items |-> s]

Op(op, e, name, outcome, invoked) ==
    [op |-> op, edition |-> e, name |-> name, outcome |-> outcome,
     invoked |-> invoked]

\* names callers pass that no edition registers
UnregisteredNames == {"ZzzUndefinedRule", "constructor"}

\* fixed names callers pass besides the probed one
SampleNames == {"Statement"} \cup UnregisteredNames

CallNames == {probe.name} \cup SampleNames

\* the rules the observed caller asks for in the behaviours of Spec
SampleProbes ==
    {[edition |-> "ES2025", name |-> "Script"],
     [edition |-> "ES5.1", name |-> "Program"]}

\* every rule of either edition
Probes ==
    UNION {{[edition |-> e, name |-> n] : n \in ToSet(RuleStatements(e))} :
              e \in Editions}

\* Mutant: the two modules share one registry, which the module evaluated
\* last re-creates.
LoadModuleSharedRegistry(e) ==
    /\ e \notin loaded
    /\ loaded' = loaded \cup {e}
    /\ rules' = [x \in Editions |-> ModuleRun(e).map]
    /\ sections' = [sections EXCEPT ![e] =
            [SECTION_ORDER |-> SECTION_ORDER(e),
             SECTION_TITLES |-> SECTION_TITLES(e),
             SECTION_RULES |-> SECTION_RULES(e)]]
    /\ last' = Op("load", e, "", Undefined, ModuleRun(e).invoked)
    /\ thunkRuns' = thunkRuns + Len(ModuleRun(e).invoked)
    /\ UNCHANGED <<build, ebnf, first, probe, adapter, app>>

\* An edition's module is imported: its body runs once, from top to bottom.
LoadModule(e) ==
    /\ e \notin loaded
    /\ loaded' = loaded \cup {e}
    /\ rules' = [rules EXCEPT ![e] = ModuleRun(e).map]
    /\ sections' = [sections EXCEPT ![e] =
            [SECTION_ORDER |-> SECTION_ORDER(e),
             SECTION_TITLES |-> SECTION_TITLES(e),
             SECTION_RULES |-> SECTION_RULES(e)]]
    /\ last' = Op("load", e, "", Undefined, ModuleRun(e).invoked)
    /\ thunkRuns' = thunkRuns + Len(ModuleRun(e).invoked)
    /\ UNCHANGED <<build, ebnf, first, probe, adapter, app>>

\* The EBNF module is imported.
LoadEbnf ==
    /\ "EBNF" \notin loaded
    /\ loaded' = loaded \cup {"EBNF"}
    /\ ebnf' = EBNF_DEFINITIONS
    /\ last' = Op("load", "EBNF", "", Undefined, << >>)
    /\ UNCHANGED <<build, rules, sections, thunkRuns, first, probe, adapter, app>>

GetRuleFactory(e, name) ==
    /\ e \in loaded
    /\ last' = Op("getRuleFactory", e, name, getRuleFactory(e, name), << >>)
    /\ UNCHANGED <<build, loaded, rules, sections, ebnf, thunkRuns, first, probe, adapter, app>>

\* A caller invokes the function getRuleFactory(name) returned.
InvokeFactory(e, name) ==
    /\ e \in loaded
    /\ thunkRuns < MaxRuns
    /\ Truthy(getRuleFactory(e, name))
    /\ last' = Op("factory", e, name, Invoke(getRuleFactory(e, name)),
                  <<getRuleFactory(e, name)>>)
    /\ thunkRuns' = thunkRuns + 1
    /\ UNCHANGED <<build, loaded, rules, sections, ebnf, first, probe, adapter, app>>

\* Mutant: the diagram built for a rule is kept in the registry in place of
\* the rule's arrow function.
CreateRuleDiagramMemo(e, name) ==
    /\ e \in loaded
    /\ thunkRuns < MaxRuns
    /\ LET r == createRuleDiagram(e, name) IN
        /\ last' = Op("createRuleDiagram", e, name, r.outcome, r.invoked)
        /\ thunkRuns' = thunkRuns + Len(r.invoked)
        /\ rules' = IF r.invoked = << >> THEN rules
                    ELSE [rules EXCEPT ![e] = MapSet(@, name, r.outcome)]
        /\ first' = IF first = NoCall /\ probe = [edition |-> e, name |-> name]
                    THEN [type |-> "call", outcome |-> r.outcome]
                    ELSE first
    /\ UNCHANGED <<build, loaded, sections, ebnf, probe, adapter, app>>

\* Mutant: a rule whose arrow function threw is removed from the registry.
CreateRuleDiagramDropFailed(e, name) ==
    /\ e \in loaded
    /\ thunkRuns < MaxRuns
    /\ LET r == createRuleDiagram(e, name) IN
        /\ last' = Op("createRuleDiagram", e, name, r.outcome, r.invoked)
        /\ thunkRuns' = thunkRuns + Len(r.invoked)
        /\ rules' = IF IsThrow(r.outcome)
                    THEN [rules EXCEPT ![e] = SelectSeq(@, LAMBDA x : x.key # name)]
                    ELSE rules
        /\ first' = IF first = NoCall /\ probe = [edition |-> e, name |-> name]
                    THEN [type |-> "call", outcome |-> r.outcome]
                    ELSE first
    /\ UNCHANGED <<build, loaded, sections, ebnf, probe, adapter, app>>

\* Mutant: the diagram built by the first resolution of the observed rule is
\* kept and returned by the later ones, the arrow function not being run.
CreateRuleDiagramCached(e, name) ==
    /\ e \in loaded
    /\ thunkRuns < MaxRuns
    /\ LET cached == first # NoCall /\ probe = [edition |-> e, name |-> name]
           r == IF cached THEN [outcome |-> first.outcome, invoked |-> << >>]
                ELSE createRuleDiagram(e, name)
       IN
        /\ last' = Op("createRuleDiagram", e, name, r.outcome, r.invoked)
        /\ thunkRuns' = thunkRuns + Len(r.invoked)
        /\ first' = IF first = NoCall /\ probe = [edition |-> e, name |-> name]
                    THEN [type |-> "call", outcome |-> r.outcome]
                    ELSE first
    /\ UNCHANGED <<build, loaded, rules, sections, ebnf, probe, adapter, app>>

\* A caller calls createRuleDiagram(name) of edition e's module.
CreateRuleDiagram(e, name) ==
    /\ e \in loaded
    /\ thunkRuns < MaxRuns
    /\ LET r == createRuleDiagram(e, name) IN
        /\ last' = Op("createRuleDiagram", e, name, r.outcome, r.invoked)
        /\ thunkRuns' = thunkRuns + Len(r.invoked)
        /\ first' = IF first = NoCall /\ probe = [edition |-> e, name |-> name]
                    THEN [type |-> "call", outcome |-> r.outcome]
                    ELSE first
    /\ UNCHANGED <<build, loaded, rules, sections, ebnf, probe, adapter, app>>

GetDiagramRuleNames ==
    /\ "ES2025" \in loaded
    /\ last' = Op("getDiagramRuleNames", "ES2025", "", Array(getDiagramRuleNames), << >>)
    /\ UNCHANGED <<build, loaded, rules, sections, ebnf, thunkRuns, first, probe, adapter, app>>

GetEbnfDefinition(name) ==
    /\ "EBNF" \in loaded
    /\ last' = Op("getEbnfDefinition", "EBNF", name, getEbnfDefinition(name), << >>)
    /\ UNCHANGED <<build, loaded, rules, sections, ebnf, thunkRuns, first, probe, adapter, app>>

GetEbnfRuleNames ==
    /\ "EBNF" \in loaded
    /\ last' = Op("getEbnfRuleNames", "EBNF", "", Array(getEbnfRuleNames), << >>)
    /\ UNCHANGED <<build, loaded, rules, sections, ebnf, thunkRuns, first, probe, adapter, app>>

(***************************************************************************)
(* Specifications                                                          *)
(***************************************************************************)
NotLoaded == [e \in Editions |-> EmptyMap]

NoSections ==
    [e \in Editions |->
        [SECTION_ORDER |-> << >>, SECTION_TITLES |-> << >>, SECTION_RULES |-> << >>]]

\* The registry with a library build that works under either convention.
Init ==
    /\ build \in WorkingBuilds
    /\ loaded = {}
    /\ rules = NotLoaded
    /\ sections = NoSections
    /\ ebnf = << >>
    /\ last = Op("none", "", "", Undefined, << >>)
    /\ thunkRuns = 0
    /\ first = NoCall
    /\ probe \in SampleProbes
    /\ adapter = NoInvocation
    /\ app = NoApp

Next ==
    \/ \E e \in Editions : LoadModule(e)
    \/ LoadEbnf
    \/ \E e \in Editions, name \in CallNames : GetRuleFactory(e, name)
    \/ \E e \in Editions, name \in CallNames : CreateRuleDiagram(e, name)
    \/ \E e \in Editions, name \in CallNames : InvokeFactory(e, name)
    \/ GetDiagramRuleNames
    \/ \E name \in CallNames : GetEbnfDefinition(name)
    \/ GetEbnfRuleNames

Spec == Init /\ [][Next]_vars

\* Every rule of either edition resolved in its edition, repeatedly, in
\* between resolutions of a missing rule.
InitEvery ==
    /\ build \in WorkingBuilds
    /\ loaded = {}
    /\ rules = NotLoaded
    /\ sections = NoSections
    /\ ebnf = << >>
    /\ last = Op("none", "", "", Undefined, << >>)
    /\ thunkRuns = 0
    /\ first = NoCall
    /\ probe \in Probes
    /\ adapter = NoInvocation
    /\ app = NoApp

NextEvery ==
    \/ LoadModule(probe.edition)
    \/ \E name \in {probe.name, "ZzzUndefinedRule"} :
            CreateRuleDiagram(probe.edition, name)

SpecEvery == InitEvery /\ [][NextEvery]_vars

\* The adapter alone, called directly with any callee.
InitAdapter ==
    /\ build \in Builds
    /\ loaded = {}
    /\ rules = NotLoaded
    /\ sections = NoSections
    /\ ebnf = << >>
    /\ last = Op("none", "", "", Undefined, << >>)
    /\ thunkRuns = 0
    /\ first = NoCall
    /\ probe = [edition |-> "ES2025", name |-> "SourceCharacter"]
    /\ adapter = NoInvocation
    /\ app = NoApp

NextAdapter == \E Ctor \in Callees, args \in ArgLists : CallOrNew(Ctor, args)

SpecAdapter == InitAdapter /\ [][NextAdapter]_vars


(***************************************************************************)
(* Strings                                                                 *)
(***************************************************************************)
Char(s, i) == SubSeq(s, i, i)

\* the white space String.prototype.trim removes (the ASCII part of it)
WhiteSpaceChars == {" ", "\t", "\n", "\r"}

\* String.prototype.trim
Trim(s) ==
    LET kept == {i \in 1..Len(s) : Char(s, i) \notin WhiteSpaceChars} IN
    IF kept = {} THEN ""
    ELSE SubSeq(s,
                CHOOSE i \in kept : \A j \in kept : i <= j,
                CHOOSE i \in kept : \A j \in kept : j <= i)

LowerCaseOf(c) ==
    CASE c = "A" -> "a" [] c = "B" -> "b" [] c = "C" -> "c" [] c = "D" -> "d"
      [] c = "E" -> "e" [] c = "F" -> "f" [] c = "G" -> "g" [] c = "H" -> "h"
      [] c = "I" -> "i" [] c = "J" -> "j" [] c = "K" -> "k" [] c = "L" -> "l"
      [] c = "M" -> "m" [] c = "N" -> "n" [] c = "O" -> "o" [] c = "P" -> "p"
      [] c = "Q" -> "q" [] c = "R" -> "r" [] c = "S" -> "s" [] c = "T" -> "t"
      [] c = "U" -> "u" [] c = "V" -> "v" [] c = "W" -> "w" [] c = "X" -> "x"
      [] c = "Y" -> "y" [] c = "Z" -> "z" [] OTHER -> c

\* String.prototype.toLowerCase
RECURSIVE ToLowerCase(_)
ToLowerCase(s) ==
    IF s = "" THEN ""
    ELSE LowerCaseOf(Char(s, 1)) \o ToLowerCase(SubSeq(s, 2, Len(s)))

\* String.prototype.includes
Includes(s, q) ==
    \E i \in 1..(Len(s) - Len(q) + 1) : SubSeq(s, i, i + Len(q) - 1) = q

(***************************************************************************)
(* The App components.  app.mounted is the edition whose App is mounted;   *)
(* app.query and, in the ES2025 App, app.expandedSections are its React    *)
(* state.  What the component renders is a function of that state.         *)
(***************************************************************************)
\* Mutant: the query is matched as typed, without toLowerCase.
filterNamesCaseSensitive(query, names) ==
    LET q == Trim(query) IN
    IF q = "" THEN names
    ELSE SelectSeq(names, LAMBDA n : Includes(n, q))

\* Mutant: the query is not trimmed.
filterNamesUntrimmed(query, names) ==
    LET q == ToLowerCase(query) IN
    IF q = "" THEN names
    ELSE SelectSeq(names, LAMBDA n : Includes(ToLowerCase(n), q))

\* filterNames(names), with the query of the render it is created in
filterNames(query, names) ==
    LET q == ToLowerCase(Trim(query)) IN
    IF q = "" THEN names
    ELSE SelectSeq(names, LAMBDA n : Includes(ToLowerCase(n), q))

\* the useMemo callback of filteredBySection, run in a render with the given
\* query: out[s] = filterNames(SECTION_RULES[s]) for s of SECTION_ORDER
FilterBySection(e, query) ==
    LET order == sections[e].SECTION_ORDER IN
    [i \in 1..Len(order) |->
        [key |-> order[i],
         value |-> filterNames(query, ObjectGet(sections[e].SECTION_RULES, order[i]))]]

\* filteredBySection: the memoized value, recomputed when query changes
filteredBySection == app.filteredBySection

\* const hasFilterQuery = query.trim().length > 0
hasFilterQuery == Len(Trim(app.query)) > 0

\* Mutant: every section starts collapsed.
InitialExpandedSectionsNone(e) == {}

\* useState(() => new Set([SECTION_ORDER[0]]))
InitialExpandedSections(e) == {SECTION_ORDER(e)[1]}

\* the state of an App at its first render
InitialApp(e) ==
    IF e = "ES2025"
    THEN [mounted |-> e, query |-> "",
          filteredBySection |-> FilterBySection(e, ""),
          expandedSections |-> InitialExpandedSections(e)]
    ELSE [mounted |-> e, query |-> "",
          filteredBySection |-> FilterBySection(e, "")]

\* Mutant: the filter does not expand anything.
isExpandedIgnoringFilter(s) == s \in app.expandedSections

\* isExpanded of section s in the ES2025 App
isExpanded(s) ==
    IF hasFilterQuery
    THEN Len(ObjectGet(filteredBySection, s)) > 0
    ELSE s \in app.expandedSections

Null == [type |-> "null"]

\* <RuleList names={...} />
RuleList(names) == [type |-> "RuleList", names |-> names]

\* the <section> the ES2025 App returns for s, or null
RenderSectionES2025(s) ==
    LET filteredRules == ObjectGet(filteredBySection, s) IN
    IF hasFilterQuery /\ Len(filteredRules) = 0 THEN Null
    ELSE [type |-> "section", id |-> s,
          title |-> ObjectGet(sections[app.mounted].SECTION_TITLES, s),
          expanded |-> isExpanded(s),
          count |-> Len(filteredRules),
          content |-> IF isExpanded(s) THEN RuleList(filteredRules) ELSE Null]

\* the <section> the ES5.1 App returns for s
RenderSectionES5(s) ==
    [type |-> "section", id |-> s,
     title |-> ObjectGet(sections[app.mounted].SECTION_TITLES, s),
     content |-> RuleList(ObjectGet(filteredBySection, s))]

\* <main>: SECTION_ORDER.map(...), one element per section
Main ==
    LET order == sections[app.mounted].SECTION_ORDER IN
    [i \in 1..Len(order) |->
        IF app.mounted = "ES2025" THEN RenderSectionES2025(order[i])
        ELSE RenderSectionES5(order[i])]

\* the section headers on the page, which the user can click
Headers == {Main[i].id : i \in {j \in 1..Len(Main) : Main[j] # Null}}

\* queries a user types
Queries == {"", "  ", " Stat\t", "EXPRESSION", "List", "zzz"}

\* Mutant: typing in the filter input collapses every section.
SetQueryCollapsing(q) ==
    /\ app.mounted \in Editions
    /\ app' = IF app.mounted = "ES2025"
              THEN [app EXCEPT !.query = q,
                               !.filteredBySection = FilterBySection(app.mounted, q),
                               !.expandedSections = {}]
              ELSE [app EXCEPT !.query = q,
                               !.filteredBySection = FilterBySection(app.mounted, q)]
    /\ UNCHANGED <<build, loaded, rules, sections, ebnf, last, thunkRuns, first, probe, adapter>>

\* onChange of the filter input: setQuery(e.target.value)
SetQuery(q) ==
    /\ app.mounted \in Editions
    /\ app' = [app EXCEPT !.query = q,
                           !.filteredBySection = FilterBySection(app.mounted, q)]
    /\ UNCHANGED <<build, loaded, rules, sections, ebnf, last, thunkRuns, first, probe, adapter>>

\* Mutant: the toggled section becomes the only expanded one.
toggleSectionExclusive(prev, sectionId) ==
    IF sectionId \in prev THEN {} ELSE {sectionId}

\* the updater of toggleSection(sectionId)
toggleSection(prev, sectionId) ==
    IF sectionId \in prev THEN prev \ {sectionId} ELSE prev \cup {sectionId}

\* onClick of a section header
ToggleSection(s) ==
    /\ app.mounted = "ES2025"
    /\ s \in Headers
    /\ app' = [app EXCEPT !.expandedSections = toggleSection(@, s)]
    /\ UNCHANGED <<build, loaded, rules, sections, ebnf, last, thunkRuns, first, probe, adapter>>

\* onClick of Expand All: setExpandedSections(new Set(SECTION_ORDER))
ExpandAll ==
    /\ app.mounted = "ES2025"
    /\ app' = [app EXCEPT !.expandedSections = ToSet(sections[app.mounted].SECTION_ORDER)]
    /\ UNCHANGED <<build, loaded, rules, sections, ebnf, last, thunkRuns, first, probe, adapter>>

\* onClick of Collapse All: setExpandedSections(new Set())
CollapseAll ==
    /\ app.mounted = "ES2025"
    /\ app' = [app EXCEPT !.expandedSections = {}]
    /\ UNCHANGED <<build, loaded, rules, sections, ebnf, last, thunkRuns, first, probe, adapter>>

\* the modules an App imports have been evaluated when it is first rendered
AllSections ==
    [e \in Editions |->
        [SECTION_ORDER |-> SECTION_ORDER(e),
         SECTION_TITLES |-> SECTION_TITLES(e),
         SECTION_RULES |-> SECTION_RULES(e)]]

\* An App right after its first render, every module evaluated.
InitApp ==
    /\ build = "class"
    /\ loaded = Modules
    /\ rules = [e \in Editions |-> ModuleRun(e).map]
    /\ sections = AllSections
    /\ ebnf = EBNF_DEFINITIONS
    /\ last = Op("none", "", "", Undefined, << >>)
    /\ thunkRuns = 0
    /\ first = NoCall
    /\ probe = [edition |-> "ES2025", name |-> "Statement"]
    /\ adapter = NoInvocation
    /\ \E e \in Editions : app = InitialApp(e)

NextApp ==
    \/ \E q \in Queries : SetQuery(q)
    \/ \E s \in ToSet(SECTION_ORDER_ES2025) : ToggleSection(s)
    \/ ExpandAll
    \/ CollapseAll

SpecApp == InitApp /\ [][NextApp]_vars

\* names and queries of the behaviours that mix calls of the exported
\* functions with the user's actions
FrameNames == {"Statement", "ZzzUndefinedRule"}

FrameQueries == {"", " Stat\t"}

FrameSections == {"lexical", "statements"}

NextFrame ==
    \/ \E e \in Editions, name \in FrameNames : GetRuleFactory(e, name)
    \/ \E e \in Editions, name \in FrameNames : CreateRuleDiagram(e, name)
    \/ GetDiagramRuleNames
    \/ \E name \in FrameNames : GetEbnfDefinition(name)
    \/ GetEbnfRuleNames
    \/ \E q \in FrameQueries : SetQuery(q)
    \/ \E s \in FrameSections : ToggleSection(s)
    \/ ExpandAll
    \/ CollapseAll

SpecFrame == InitApp /\ [][NextFrame]_vars

\* The two editions side by side: a caller resolves names both register.
SharedNames == {"Expression", "Statement"}

InitEditions ==
    /\ build \in WorkingBuilds
    /\ loaded = {}
    /\ rules = NotLoaded
    /\ sections = NoSections
    /\ ebnf = << >>
    /\ last = Op("none", "", "", Undefined, << >>)
    /\ thunkRuns = 0
    /\ first = NoCall
    /\ \E e \in Editions : probe = [edition |-> e, name |-> "Expression"]
    /\ adapter = NoInvocation
    /\ app = NoApp

NextEditions ==
    \/ \E e \in Editions : LoadModule(e)
    \/ \E e \in Editions, name \in SharedNames : GetRuleFactory(e, name)
    \/ \E e \in Editions, name \in SharedNames : CreateRuleDiagram(e, name)
    \/ GetDiagramRuleNames

SpecEditions == InitEditions /\ [][NextEditions]_vars

\* The grammar module and the EBNF module evaluated with the minimal rule
\* set in place of their own.
LoadMinimal ==
    /\ loaded = {}
    /\ loaded' = {"ES2025", "EBNF"}
    /\ rules' = [rules EXCEPT !["ES2025"] = EvaluateModule("Minimal").map]
    /\ ebnf' = EBNF_DEFINITIONS_Minimal
    /\ last' = Op("load", "ES2025", "", Undefined, EvaluateModule("Minimal").invoked)
    /\ thunkRuns' = thunkRuns + Len(EvaluateModule("Minimal").invoked)
    /\ UNCHANGED <<build, sections, first, probe, adapter, app>>

MinimalNames == {"Digit", "Number", "ZzzUndefinedRule"}

InitMinimal ==
    /\ build \in WorkingBuilds
    /\ loaded = {}
    /\ rules = NotLoaded
    /\ sections = NoSections
    /\ ebnf = << >>
    /\ last = Op("none", "", "", Undefined, << >>)
    /\ thunkRuns = 0
    /\ first = NoCall
    /\ \E n \in {"Digit", "Number"} : probe = [edition |-> "ES2025", name |-> n]
    /\ adapter = NoInvocation
    /\ app = NoApp

NextMinimal ==
    \/ LoadMinimal
    \/ \E name \in MinimalNames : GetRuleFactory("ES2025", name)
    \/ \E name \in MinimalNames : CreateRuleDiagram("ES2025", name)
    \/ GetDiagramRuleNames
    \/ \E name \in MinimalNames : GetEbnfDefinition(name)
    \/ GetEbnfRuleNames

SpecMinimal == InitMinimal /\ [][NextMinimal]_vars

\* The grammar modules over a build of the package that lacks exports: the
\* build "lacking" has no RR.Optional, the build "missing" has no export at
\* all.  An arrow function that calls a wrapper of an absent export throws.
FailingBuilds == {"lacking", "missing"}

\* Script (ES2025) and Program (ES5.1) use Optional, Statement does not
FailingNames == {"Script", "Program", "Statement", "ZzzUndefinedRule"}

InitFailing ==
    /\ build \in FailingBuilds
    /\ loaded = {}
    /\ rules = NotLoaded
    /\ sections = NoSections
    /\ ebnf = << >>
    /\ last = Op("none", "", "", Undefined, << >>)
    /\ thunkRuns = 0
    /\ first = NoCall
    /\ probe \in SampleProbes
    /\ adapter = NoInvocation
    /\ app = NoApp

NextFailing ==
    \/ \E e \in Editions : LoadModule(e)
    \/ \E e \in Editions, name \in FailingNames : GetRuleFactory(e, name)
    \/ \E e \in Editions, name \in FailingNames : CreateRuleDiagram(e, name)
    \/ GetDiagramRuleNames

SpecFailing == InitFailing /\ [][NextFailing]_vars

\* The grammar module evaluated with the rule set that defines Digit twice.
LoadRedefined ==
    /\ loaded = {}
    /\ loaded' = {"ES2025"}
    /\ rules' = [rules EXCEPT !["ES2025"] = EvaluateModule("Redefined").map]
    /\ last' = Op("load", "ES2025", "", Undefined, EvaluateModule("Redefined").invoked)
    /\ thunkRuns' = thunkRuns + Len(EvaluateModule("Redefined").invoked)
    /\ UNCHANGED <<build, sections, ebnf, first, probe, adapter, app>>

InitRedefined ==
    /\ build \in WorkingBuilds
    /\ loaded = {}
    /\ rules = NotLoaded
    /\ sections = NoSections
    /\ ebnf = << >>
    /\ last = Op("none", "", "", Undefined, << >>)
    /\ thunkRuns = 0
    /\ first = NoCall
    /\ \E n \in {"Digit", "Number"} : probe = [edition |-> "ES2025", name |-> n]
    /\ adapter = NoInvocation
    /\ app = NoApp

NextRedefined ==
    \/ LoadRedefined
    \/ \E name \in MinimalNames : GetRuleFactory("ES2025", name)
    \/ \E name \in MinimalNames : CreateRuleDiagram("ES2025", name)
    \/ \E name \in MinimalNames : InvokeFactory("ES2025", name)
    \/ GetDiagramRuleNames

SpecRedefined == InitRedefined /\ [][NextRedefined]_vars

\* Callers that pass a registered name in other spellings: another case,
\* white space around it.
NameVariants == {"Statement", "statement", "STATEMENT", " Statement", "Statement\t"}

InitNames ==
    /\ build \in WorkingBuilds
    /\ loaded = {}
    /\ rules = NotLoaded
    /\ sections = NoSections
    /\ ebnf = << >>
    /\ last = Op("none", "", "", Undefined, << >>)
    /\ thunkRuns = 0
    /\ first = NoCall
    /\ probe = [edition |-> "ES2025", name |-> "Statement"]
    /\ adapter = NoInvocation
    /\ app = NoApp

NextNames ==
    \/ \E e \in Editions : LoadModule(e)
    \/ LoadEbnf
    \/ \E e \in Editions, name \in NameVariants : GetRuleFactory(e, name)
    \/ \E e \in Editions, name \in NameVariants : CreateRuleDiagram(e, name)
    \/ GetDiagramRuleNames
    \/ \E name \in NameVariants : GetEbnfDefinition(name)
    \/ GetEbnfRuleNames

SpecNames == InitNames /\ [][NextNames]_vars

(***************************************************************************)
(* Properties                                                              *)
(***************************************************************************)
\* the names an edition's registry holds
Registered(e) == ToSet(MapKeys(rules[e]))

\* the positions of an object's items that are objects themselves
Children(node) ==
    CASE node.type \in {"Terminal", "NonTerminal", "Comment"} -> {}
      [] node.type = "Choice" -> 2..Len(node.items)
      [] OTHER -> 1..Len(node.items)

\* the names held by the NonTerminal objects of a tree
RECURSIVE ReferencedNames(_)
ReferencedNames(node) ==
    IF node.type = "NonTerminal" THEN {node.items[1]}
    ELSE UNION {ReferencedNames(node.items[i]) : i \in Children(node)}

\* some object below the root of the tree is of the given type
RECURSIVE Holds(_, _)
Holds(node, type) ==
    \E i \in Children(node) :
        node.items[i].type = type \/ Holds(node.items[i], type)

\* the placeholder diagram for a name
Placeholder(name) ==
    [type |-> "Diagram",
     items |-> <<[type |-> "Comment",
                  items |-> <<"No factory defined for " \o name>>]>>]

\* C1: once the ES2025 module and the EBNF module are loaded, the names
\* getDiagramRuleNames() enumerates and the names getEbnfRuleNames()
\* enumerates are the same set, whichever of the two calls was made.
C1_RuleNameSetsAgree ==
    ({"ES2025", "EBNF"} \subseteq loaded) =>
        /\ ToSet(getDiagramRuleNames) = ToSet(getEbnfRuleNames)
        /\ last.op = "getDiagramRuleNames" =>
              ToSet(last.outcome.items) = ToSet(getEbnfRuleNames)
        /\ last.op = "getEbnfRuleNames" =>
              ToSet(last.outcome.items) = ToSet(getDiagramRuleNames)

C1_BothEnumerated ==
    /\ {"ES2025", "EBNF"} \subseteq loaded
    /\ last.op = "getEbnfRuleNames"
    /\ Len(last.outcome.items) = Len(getDiagramRuleNames)
    /\ "Statement" \in ToSet(last.outcome.items)
    /\ "Statement" \in ToSet(getDiagramRuleNames)

\* C2: createRuleDiagram(n) for a name n the edition's registry does not hold
\* does not throw; it returns the diagram whose only content is the comment
\* "No factory defined for " followed by n, and runs no rule's arrow function.
C2_MissingRuleGivesPlaceholder ==
    (last.op = "createRuleDiagram" /\ ~MapHas(rules[last.edition], last.name)) =>
        /\ ~IsThrow(last.outcome)
        /\ last.outcome = Placeholder(last.name)
        /\ last.invoked = << >>

C2_PlaceholderReturned ==
    /\ last.op = "createRuleDiagram"
    /\ last.name = "ZzzUndefinedRule"
    /\ build = "class"
    /\ Len(rules[last.edition]) > 0
    /\ last.outcome.items[1].items = <<"No factory defined for ZzzUndefinedRule">>

\* C3 as stated: whenever the plain call P(...args) throws an error whose
\* message has the substring without 'new', callOrNew goes on to new
\* P(...args) and its outcome is the instantiation's.
C3_RetryOnMessageAlone ==
    (/\ adapter # NoInvocation
     /\ IsThrow(adapter.plain)
     /\ TestWithoutNew(adapter.plain.error.message)) =>
        /\ adapter.result.attempts = <<"call", "new">>
        /\ adapter.result.outcome = New(adapter.Ctor, adapter.args)

\* C3: whenever the plain call P(...args) throws a TypeError whose message
\* has the substring without 'new', callOrNew goes on to new P(...args) and
\* its outcome is the instantiation's: the plain call's error is not seen.
C3_RetryOnTypeErrorWithoutNew ==
    (/\ adapter # NoInvocation
     /\ IsThrow(adapter.plain)
     /\ InstanceOfTypeError(adapter.plain.error)
     /\ TestWithoutNew(adapter.plain.error.message)) =>
        /\ adapter.result.attempts = <<"call", "new">>
        /\ adapter.result.outcome = New(adapter.Ctor, adapter.args)

C3_ClassPrimitiveInstantiated ==
    /\ adapter # NoInvocation
    /\ adapter.Ctor = [kind |-> "RR", name |-> "Choice", build |-> "class"]
    /\ adapter.args = <<0, "a", "b">>
    /\ adapter.plain =
          Throw(Error("TypeError",
                      "Class constructor Choice cannot be invoked without 'new'"))
    /\ adapter.result.attempts = <<"call", "new">>
    /\ adapter.result.outcome = [type |-> "Choice", items |-> <<0, "a", "b">>]

\* C4: when the plain call throws an error that is not a TypeError with the
\* substring without 'new' in its message, callOrNew throws that same error
\* and never instantiates.
C4_OtherErrorsRethrown ==
    (/\ adapter # NoInvocation
     /\ IsThrow(adapter.plain)
     /\ ~(/\ InstanceOfTypeError(adapter.plain.error)
          /\ TestWithoutNew(adapter.plain.error.message))) =>
        /\ adapter.result.outcome = adapter.plain
        /\ adapter.result.attempts = <<"call">>

C4_NotAFunctionRethrown ==
    /\ adapter # NoInvocation
    /\ adapter.Ctor.kind = "fn"
    /\ adapter.Ctor.onNew = [type |-> "constructed"]
    /\ adapter.plain = Throw(Error("TypeError", "Foo is not a function"))
    /\ adapter.result.outcome = adapter.plain
    /\ adapter.result.attempts = <<"call">>

\* C5: callOrNew invokes the primitive at most twice, a plain call and then
\* at most one instantiation; an instantiation that throws ends callOrNew
\* with that error.
C5_AtMostOneRetry ==
    (adapter # NoInvocation) =>
        /\ Len(adapter.result.attempts) <= 2
        /\ adapter.result.attempts \in {<<"call">>, <<"call", "new">>}
        /\ (/\ Len(adapter.result.attempts) > 1
            /\ IsThrow(New(adapter.Ctor, adapter.args))) =>
                adapter.result.outcome = New(adapter.Ctor, adapter.args)

C5_FailedRetryPropagates ==
    /\ adapter # NoInvocation
    /\ adapter.result.attempts = <<"call", "new">>
    /\ adapter.result.outcome = Throw(Error("Error", "constructor failed"))

\* C6: loading a module runs no rule's arrow function and builds no diagram
\* object: every registry entry holds the arrow function its rules.set
\* statement created, and an arrow function has run only in a
\* createRuleDiagram call or in a caller's call of a function it got from
\* getRuleFactory.
C6_RegistrationRunsNoThunk ==
    /\ last.op = "load" => last.invoked = << >>
    /\ last.invoked # << >> => last.op \in {"createRuleDiagram", "factory"}
    /\ \A e \in Editions : \A i \in 1..Len(rules[e]) :
          rules[e][i].value = Thunk(e, i)

C6_ModuleLoaded ==
    /\ last.op = "load"
    /\ last.edition = "ES2025"
    /\ Len(rules["ES2025"]) = Len(RuleStatementsES2025)
    /\ MapGet(rules["ES2025"], "Statement").type = "thunk"
    /\ thunkRuns = 0

\* the references that lead from Statement back to Statement
StatementCycle(e) ==
    IF e = "ES2025"
    THEN <<"Statement", "BlockStatement", "Block", "StatementList",
           "StatementListItem", "Statement">>
    ELSE <<"Statement", "Block", "StatementList", "Statement">>

\* each rule of the path is registered and its body refers to the next one
OnCycle(e, path) ==
    \A i \in 1..(Len(path) - 1) :
        /\ MapHas(rules[e], path[i])
        /\ path[i + 1] \in References(Body(e, path[i]))

\* C7: a createRuleDiagram call for a registered rule runs that rule's arrow
\* function and no other; for Statement, which refers back to itself through
\* other rules in both editions, the call returns a diagram in which every
\* rule the body refers to is a NonTerminal object holding the name, and no
\* other rule's diagram is nested in it.
C7_OnlyNamedThunkRuns ==
    (last.op = "createRuleDiagram" /\ MapHas(rules[last.edition], last.name)) =>
        /\ last.invoked = <<MapGet(rules[last.edition], last.name)>>
        /\ last.name = "Statement" =>
              /\ OnCycle(last.edition, StatementCycle(last.edition))
              /\ last.outcome.type = "Diagram"
              /\ ~Holds(last.outcome, "Diagram")
              /\ ~Holds(last.outcome, "throw")
              /\ StatementCycle(last.edition)[2] \in ReferencedNames(last.outcome)
              /\ ReferencedNames(last.outcome) =
                    References(Body(last.edition, "Statement"))

C7_StatementResolved ==
    /\ last.op = "createRuleDiagram"
    /\ last.name = "Statement"
    /\ last.edition = "ES2025"
    /\ build = "class"
    /\ last.outcome.type = "Diagram"
    /\ "BlockStatement" \in ReferencedNames(last.outcome)
    /\ OnCycle("ES2025", StatementCycle("ES2025"))

\* C8: in a loaded edition, every name that SECTION_RULES lists for a
\* section of SECTION_ORDER is a key of the edition's registry.
C8_ListedRulesRegistered ==
    \A e \in loaded \cap Editions :
        \A s \in ToSet(sections[e].SECTION_ORDER) :
            ToSet(ObjectGet(sections[e].SECTION_RULES, s)) \subseteq Registered(e)

C8_ListedRuleFound ==
    /\ Editions \subseteq loaded
    /\ last.op = "getRuleFactory"
    /\ last.name = "Statement"
    /\ "Statement" \in ToSet(ObjectGet(sections[last.edition].SECTION_RULES,
                                       "statements"))
    /\ Truthy(last.outcome)

\* the places <<section, position>> of SECTION_RULES that hold a name
Occurrences(e) ==
    UNION {{<<k, i>> : i \in 1..Len(sections[e].SECTION_RULES[k].value)} :
              k \in 1..Len(sections[e].SECTION_RULES)}

NameAt(e, o) == sections[e].SECTION_RULES[o[1]].value[o[2]]

\* C9: in a loaded edition, every registered name is listed by SECTION_RULES
\* and the places that list registered names are as many as the registered
\* names: each registered rule is listed in one section, once.
C9_RegisteredRulesListedOnce ==
    \A e \in loaded \cap Editions :
        LET names == Registered(e)
            places == {o \in Occurrences(e) : NameAt(e, o) \in names}
        IN
        /\ names \subseteq {NameAt(e, o) : o \in places}
        /\ Cardinality(places) = Cardinality(names)

C9_SectionsCoverRegistry ==
    /\ Editions \subseteq loaded
    /\ last.op = "load"
    /\ Cardinality(Registered("ES2025")) = Len(RuleStatementsES2025)
    /\ Cardinality(Registered("ES5.1")) = Len(RuleStatementsES5)
    /\ Cardinality(Occurrences("ES2025")) = Len(RuleStatementsES2025)
    /\ Cardinality(Occurrences("ES5.1")) = Len(RuleStatementsES5)

\* C10: createRuleDiagram(n) for a registered name n returns a diagram, with
\* no exception thrown inside it, and the diagram equals the one the
\* earliest call for n returned.
C10_RegisteredRuleResolvesAlike ==
    (last.op = "createRuleDiagram" /\ MapHas(rules[last.edition], last.name)) =>
        /\ ~IsThrow(last.outcome)
        /\ last.outcome.type = "Diagram"
        /\ ~Holds(last.outcome, "throw")
        /\ (/\ first # NoCall
            /\ probe = [edition |-> last.edition, name |-> last.name]) =>
                last.outcome = first.outcome

C10_ResolvedTwice ==
    /\ last.op = "createRuleDiagram"
    /\ probe = [edition |-> last.edition, name |-> last.name]
    /\ probe.name = "AssignmentExpression"
    /\ first # NoCall
    /\ thunkRuns = 2
    /\ last.outcome = first.outcome
    /\ last.outcome.type = "Diagram"

\* C11: a step that is not the evaluation of a module, whether a call of an
\* exported function or an action of the user in an App, leaves the
\* registries, the section tables and the EBNF table as they were.
C11_NothingWritesAfterLoad ==
    [][loaded' = loaded =>
          /\ rules' = rules
          /\ sections' = sections
          /\ ebnf' = ebnf]_vars

C11_CallsAndActionsDone ==
    /\ last.op = "createRuleDiagram"
    /\ last.name = "Statement"
    /\ thunkRuns > 1
    /\ app.mounted = "ES2025"
    /\ app.query = " Stat\t"
    /\ app.expandedSections = {"statements"}
    /\ rules["ES2025"] = RegistryES2025.map
    /\ rules["ES5.1"] = RegistryES5.map
    /\ sections = AllSections
    /\ ebnf = EBNF_DEFINITIONS

OtherEdition(e) == IF e = "ES2025" THEN "ES5.1" ELSE "ES2025"

\* C12: a createRuleDiagram or getRuleFactory call of an edition for a name
\* its registry does not hold gives the placeholder, respectively undefined,
\* also when the other edition registers the name, and an arrow function a
\* call runs belongs to the edition called; once both editions are loaded
\* this is so for every name that only the other edition registers.
C12_ResolutionScopedToEdition ==
    /\ (last.op = "createRuleDiagram" /\ ~MapHas(rules[last.edition], last.name)) =>
          /\ last.outcome = Placeholder(last.name)
          /\ last.invoked = << >>
    /\ (last.op = "getRuleFactory" /\ ~MapHas(rules[last.edition], last.name)) =>
          last.outcome = Undefined
    /\ last.op \in {"createRuleDiagram", "factory"} =>
          \A i \in 1..Len(last.invoked) : last.invoked[i].edition = last.edition
    /\ (last.op = "getRuleFactory" /\ Truthy(last.outcome)) =>
          last.outcome.edition = last.edition
    /\ (last.op = "load" /\ Editions \subseteq loaded) =>
          \A e \in Editions :
              \A n \in Registered(OtherEdition(e)) \ Registered(e) :
                  /\ getRuleFactory(e, n) = Undefined
                  /\ createRuleDiagram(e, n) =
                        [outcome |-> Placeholder(n), invoked |-> << >>]

C12_OtherEditionsRuleMissing ==
    /\ Editions \subseteq loaded
    /\ last.op = "createRuleDiagram"
    /\ last.edition = "ES2025"
    /\ last.name = "Program"
    /\ MapHas(rules["ES5.1"], "Program")
    /\ {"Token", "RegularExpressionFirstChar"} \subseteq
          Registered("ES5.1") \ Registered("ES2025")
    /\ "Script" \in Registered("ES2025") \ Registered("ES5.1")
    /\ last.outcome = Placeholder("Program")

\* the own properties of an object
OwnKeys(o) == ToSet(ObjectKeys(o))

\* C13 as stated: getEbnfDefinition(name) returns the stored text when name
\* is a key of EBNF_DEFINITIONS and undefined for every other name, the
\* names of inherited properties such as "constructor" included.
C13_AbsentForEveryOtherName ==
    last.op = "getEbnfDefinition" =>
        IF last.name \in OwnKeys(ebnf)
        THEN \E i \in 1..Len(ebnf) :
                ebnf[i].key = last.name /\ last.outcome = ebnf[i].value
        ELSE last.outcome = Undefined

\* names a caller may ask for: every name either edition registers, names
\* none registers, and names that differ from a registered one in case or
\* white space
NameUniverse ==
    ToSet(RuleStatementsES2025) \cup ToSet(RuleStatementsES5)
        \cup UnregisteredNames \cup {"statement", " Statement", ""}

\* C14: once the ES2025 module is loaded, getDiagramRuleNames() lists no name
\* twice, and a name is in it exactly when getRuleFactory returns a function
\* for it and exactly when createRuleDiagram runs an arrow function for it
\* rather than returning the placeholder; this holds of the calls made and,
\* right after a load, of every name a caller may ask for.
C14_EnumerationIsExact ==
    ("ES2025" \in loaded) =>
        LET names == ToSet(getDiagramRuleNames) IN
        /\ Len(getDiagramRuleNames) = Cardinality(names)
        /\ (last.op = "getRuleFactory" /\ last.edition = "ES2025") =>
              (last.name \in names <=> Truthy(last.outcome))
        /\ (last.op = "createRuleDiagram" /\ last.edition = "ES2025") =>
              /\ last.name \in names <=> Len(last.invoked) = 1
              /\ last.name \notin names <=> last.outcome = Placeholder(last.name)
        /\ last.op = "load" =>
              \A n \in NameUniverse :
                  LET r == createRuleDiagram("ES2025", n) IN
                  IF n \in names
                  THEN /\ Truthy(getRuleFactory("ES2025", n))
                       /\ r.invoked = <<getRuleFactory("ES2025", n)>>
                  ELSE /\ ~Truthy(getRuleFactory("ES2025", n))
                       /\ r = [outcome |-> Placeholder(n), invoked |-> << >>]

C14_ListedAndResolved ==
    /\ "ES2025" \in loaded
    /\ last.op = "createRuleDiagram"
    /\ last.edition = "ES2025"
    /\ last.name = "Script"
    /\ "Script" \in ToSet(getDiagramRuleNames)
    /\ Truthy(getRuleFactory("ES2025", "Script"))
    /\ last.invoked = <<getRuleFactory("ES2025", "Script")>>
    /\ "ZzzUndefinedRule" \notin ToSet(getDiagramRuleNames)

\* every Choice object of the tree was built from a default index and at
\* least one alternative, the index being that of one of the alternatives
RECURSIVE ChoicesValid(_)
ChoicesValid(node) ==
    /\ node.type = "Choice" =>
          /\ Len(node.items) >= 2
          /\ node.items[1] \in 0..(Len(node.items) - 2)
    /\ \A i \in Children(node) : ChoicesValid(node.items[i])

\* C15: in the diagram createRuleDiagram returns for a registered rule of
\* either edition, every Choice object, those built by chain(base, ops)
\* included, has at least one alternative and a default index that is the
\* index of one of its alternatives.
C15_ChoiceDefaultIndexValid ==
    (/\ last.op = "createRuleDiagram"
     /\ MapHas(rules[last.edition], last.name)
     /\ ~IsThrow(last.outcome)) =>
        ChoicesValid(last.outcome)

C15_ChainChoiceBuilt ==
    /\ last.op = "createRuleDiagram"
    /\ last.edition = "ES5.1"
    /\ last.name = "RelationalExpression"
    /\ Body("ES5.1", "RelationalExpression").args[1].call = "chain"
    /\ Holds(last.outcome, "Choice")
    /\ last.outcome.items[1].items[2].items[1].items[1].type = "Choice"
    /\ Len(last.outcome.items[1].items[2].items[1].items[1].items) = 7
    /\ ChoicesValid(last.outcome)

\* C16: in a loaded edition SECTION_ORDER lists each section identifier once
\* and no other, SECTION_TITLES and SECTION_RULES have one entry for each
\* identifier of SECTION_ORDER and no other entry, and no step changes the
\* three tables of a loaded edition: every later read finds the same
\* sections and the same names in the same order.
C16_SectionTablesFixed ==
    /\ [](\A e \in loaded \cap Editions :
            LET order == sections[e].SECTION_ORDER
                titles == sections[e].SECTION_TITLES
                lists == sections[e].SECTION_RULES
            IN
            /\ ToSet(order) = SectionId(e)
            /\ Len(order) = Cardinality(SectionId(e))
            /\ OwnKeys(titles) = ToSet(order)
            /\ Len(titles) = Len(order)
            /\ OwnKeys(lists) = ToSet(order)
            /\ Len(lists) = Len(order))
    /\ [][\A e \in loaded \cap Editions : sections'[e] = sections[e]]_vars

C16_TablesReadLater ==
    /\ Editions \subseteq loaded
    /\ last.op = "createRuleDiagram"
    /\ thunkRuns > 0
    /\ sections["ES2025"].SECTION_ORDER =
          <<"lexical", "expressions", "statements", "functions", "modules">>
    /\ sections["ES5.1"].SECTION_ORDER[1] = "source"
    /\ Len(sections["ES5.1"].SECTION_ORDER) = Cardinality(SectionIdES5)
    /\ ObjectGet(sections["ES5.1"].SECTION_TITLES, "program") = "\\u00A714 Program"
    /\ ObjectGet(sections["ES2025"].SECTION_RULES, "modules")[1] = "Script"

\* C17: the two editions hold different arrow functions for Expression and a
\* createRuleDiagram("Expression") call runs the one of the edition called
\* and returns what that one builds.  A step made against one edition, its
\* load included, leaves the other edition's registry as it was; whatever
\* was done to the other edition in between, resolving Expression returns
\* what the earliest such call returned and getDiagramRuleNames the names of
\* the ES2025 module.
C17_EditionsIndependent ==
    /\ [](/\ Editions \subseteq loaded =>
                getRuleFactory("ES2025", "Expression") #
                    getRuleFactory("ES5.1", "Expression")
          /\ (last.op = "createRuleDiagram" /\ last.name = "Expression") =>
                /\ last.invoked = <<getRuleFactory(last.edition, "Expression")>>
                /\ last.invoked[1].edition = last.edition
                /\ last.outcome = Invoke(getRuleFactory(last.edition, "Expression"))
                /\ (first # NoCall /\ probe.edition = last.edition) =>
                      last.outcome = first.outcome
          /\ last.op = "getDiagramRuleNames" =>
                last.outcome.items = RuleStatementsES2025)
    /\ [][\A e \in Editions :
            last'.edition = e =>
                /\ rules'[OtherEdition(e)] = rules[OtherEdition(e)]
                /\ sections'[OtherEdition(e)] = sections[OtherEdition(e)]]_vars

C17_ExpressionResolvedInBoth ==
    /\ Editions \subseteq loaded
    /\ probe.edition = "ES2025"
    /\ first # NoCall
    /\ last.op = "createRuleDiagram"
    /\ last.edition = "ES5.1"
    /\ last.name = "Expression"
    /\ last.invoked = <<getRuleFactory("ES5.1", "Expression")>>
    /\ last.invoked # <<getRuleFactory("ES2025", "Expression")>>
    /\ first.outcome.type = "Diagram"

\* C18: with a registry of exactly Digit = Choice of "0" and "1" and
\* Number = OneOrMore(NT("Digit")) and an EBNF table of exactly the keys
\* Digit and Number, both enumerations are {Digit, Number}; resolving Number
\* returns a OneOrMore object holding the NonTerminal object named Digit, not
\* Digit's diagram; resolving the name it holds returns the Choice with the
\* two alternatives.
C18_MinimalRegistry ==
    (loaded # {}) =>
        /\ ToSet(getDiagramRuleNames) = {"Digit", "Number"}
        /\ ToSet(getEbnfRuleNames) = {"Digit", "Number"}
        /\ last.op = "getDiagramRuleNames" =>
              ToSet(last.outcome.items) = {"Digit", "Number"}
        /\ last.op = "getEbnfRuleNames" =>
              ToSet(last.outcome.items) = {"Digit", "Number"}
        /\ (last.op = "createRuleDiagram" /\ last.name = "Number") =>
              /\ last.outcome =
                    [type |-> "OneOrMore",
                     items |-> <<[type |-> "NonTerminal", items |-> <<"Digit">>]>>]
              /\ createRuleDiagram("ES2025", last.outcome.items[1].items[1]).outcome =
                    [type |-> "Choice",
                     items |-> <<0, [type |-> "Terminal", items |-> <<"0">>],
                                    [type |-> "Terminal", items |-> <<"1">>]>>]
        /\ (last.op = "createRuleDiagram" /\ last.name = "Digit") =>
              /\ last.outcome.type = "Choice"
              /\ Len(last.outcome.items) = 3
              /\ last.outcome.items[2] = [type |-> "Terminal", items |-> <<"0">>]
              /\ last.outcome.items[3] = [type |-> "Terminal", items |-> <<"1">>]

C18_NumberThenDigitResolved ==
    /\ probe.name = "Number"
    /\ first # NoCall
    /\ first.outcome.type = "OneOrMore"
    /\ first.outcome.items[1].items = <<"Digit">>
    /\ last.op = "createRuleDiagram"
    /\ last.name = "Digit"
    /\ last.outcome.type = "Choice"
    /\ Len(rules["ES2025"]) = 2
    /\ Len(ebnf) = 2

CaseFold ==
    LET capitals == "ABCDEFGHIJKLMNOPQRSTUVWXYZ"
        letters == "abcdefghijklmnopqrstuvwxyz"
    IN
    [c \in {Char(capitals, j) : j \in 1..26} |->
        Char(letters, CHOOSE j \in 1..26 : Char(capitals, j) = c)]

SameLetter(a, b) ==
    \/ a = b
    \/ (IF a \in DOMAIN CaseFold THEN CaseFold[a] ELSE a) =
       (IF b \in DOMAIN CaseFold THEN CaseFold[b] ELSE b)

\* t occurs in n at some position, letters compared regardless of case
ContainsIgnoringCase(n, t) ==
    \E i \in 1..(Len(n) - Len(t) + 1) :
        \A k \in 1..Len(t) : SameLetter(Char(n, i + k - 1), Char(t, k))

\* s without the white space at its two ends
Trimmed(s) ==
    IF \A i \in 1..Len(s) : Char(s, i) \in WhiteSpaceChars THEN ""
    ELSE LET from == CHOOSE i \in 1..Len(s) :
                        /\ Char(s, i) \notin WhiteSpaceChars
                        /\ \A j \in 1..(i - 1) : Char(s, j) \in WhiteSpaceChars
             to == CHOOSE i \in 1..Len(s) :
                        /\ Char(s, i) \notin WhiteSpaceChars
                        /\ \A j \in (i + 1)..Len(s) : Char(s, j) \in WhiteSpaceChars
         IN SubSeq(s, from, to)

\* C20: in either App, for the query typed and every section of
\* SECTION_ORDER, the names shown for the section are the names of
\* SECTION_RULES[section] that contain the trimmed query, letters compared
\* regardless of case, in their order in SECTION_RULES[section]; when the
\* trimmed query is empty they are all the names of the section.
C20_FilterByName ==
    (app.mounted \in Editions) =>
        LET order == sections[app.mounted].SECTION_ORDER
            t == Trimmed(app.query)
        IN
        /\ Len(filteredBySection) = Len(order)
        /\ \A i \in 1..Len(order) :
              LET names == ObjectGet(sections[app.mounted].SECTION_RULES, order[i])
                  shown == filteredBySection[i].value
              IN
              /\ filteredBySection[i].key = order[i]
              /\ Main[i] # Null =>
                    IF Main[i].content # Null THEN Main[i].content.names = shown
                    ELSE TRUE
              /\ IF t = "" THEN shown = names
                 ELSE shown = SelectSeq(names,
                                  LAMBDA n : ContainsIgnoringCase(n, t))

C20_MixedCaseQueryFiltered ==
    /\ app.mounted = "ES2025"
    /\ app.query = " Stat\t"
    /\ ObjectGet(filteredBySection, "lexical") = << >>
    /\ "LabelledStatement" \in ToSet(ObjectGet(filteredBySection, "statements"))
    /\ "ClassStaticBlock" \in ToSet(ObjectGet(filteredBySection, "functions"))
    /\ "Block" \notin ToSet(ObjectGet(filteredBySection, "statements"))
    /\ Main[1] = Null
    /\ Main[3].content.names = ObjectGet(filteredBySection, "statements")

(***************************************************************************)
(* Claims C21..C30                                                         *)
(***************************************************************************)
StartsWith(s, prefix) ==
    /\ Len(s) >= Len(prefix)
    /\ SubSeq(s, 1, Len(prefix)) = prefix

\* a diagram whose sole content is an annotation that starts with
\* "No factory defined for"
IsMissingRuleDiagram(tree) ==
    /\ tree.type = "Diagram"
    /\ Len(tree.items) = 1
    /\ tree.items[1].type = "Comment"
    /\ Len(tree.items[1].items) = 1
    /\ StartsWith(tree.items[1].items[1], "No factory defined for")

\* C21: the tree createRuleDiagram returns for a name its edition registers
\* is a tree, and not a diagram whose sole content is an annotation starting
\* with "No factory defined for"; exactly the names the edition does not
\* register get such a diagram.
C21_RealProductionNotPlaceholder ==
    last.op = "createRuleDiagram" =>
        /\ ~IsThrow(last.outcome)
        /\ IsMissingRuleDiagram(last.outcome)
              <=> ~MapHas(rules[last.edition], last.name)

\* a rule whose diagram is a sole annotation, like the placeholder, resolved
C21_AnnotationOnlyRuleResolved ==
    /\ last.op = "createRuleDiagram"
    /\ last.edition = "ES2025"
    /\ last.name = "SourceCharacter"
    /\ MapHas(rules["ES2025"], "SourceCharacter")
    /\ last.outcome.type = "Diagram"
    /\ Len(last.outcome.items) = 1
    /\ last.outcome.items[1].type = "Comment"
    /\ last.outcome.items[1].items = <<"any Unicode code point">>

\* what createRuleDiagram(name) of edition e gives on the registry as the
\* module's evaluation left it
ResolutionAtLoad(e, name) ==
    LET factory == MapGet(ModuleRun(e).map, name) IN
    IF ~Truthy(factory)
    THEN Evaluate(Diagram(<<Comment(<<"No factory defined for " \o name>>)>>))
    ELSE Invoke(factory)

\* the observed rule's first resolution ended with an error
ProbeFailed == first # NoCall /\ IsThrow(first.outcome)

\* C22: an error raised while a rule's arrow function runs leaves
\* createRuleDiagram as the error the primitive raised; the step of the
\* failed call changes neither registry nor any other table, and once a
\* resolution has failed every call (createRuleDiagram of any name, the
\* failed one included, getRuleFactory, getDiagramRuleNames) still gives
\* what it gives on the registry as loaded: nothing remembers the error.
C22_FailureLeavesRegistryAlone ==
    /\ [](ProbeFailed =>
            /\ first.outcome = Throw(Error("TypeError", "Ctor is not a function"))
            /\ rules[probe.edition] = ModuleRun(probe.edition).map
            /\ last.op = "createRuleDiagram" =>
                    last.outcome = ResolutionAtLoad(last.edition, last.name)
            /\ last.op = "getRuleFactory" =>
                    last.outcome = MapGet(ModuleRun(last.edition).map, last.name)
            /\ last.op = "getDiagramRuleNames" =>
                    last.outcome = Array(RuleStatementsES2025))
    /\ [][last'.op = "createRuleDiagram" /\ IsThrow(last'.outcome) =>
            UNCHANGED <<build, loaded, rules, sections, ebnf, adapter, app>>]_vars

\* Script failed for want of RR.Optional, then Statement was resolved
C22_OtherRuleResolvedAfterFailure ==
    /\ build = "lacking"
    /\ probe.name = "Script"
    /\ ProbeFailed
    /\ thunkRuns = 2
    /\ last.op = "createRuleDiagram"
    /\ last.edition = "ES2025"
    /\ last.name = "Statement"
    /\ last.outcome.type = "Diagram"

\* C23: every call of createRuleDiagram(n) for a registered n runs the arrow
\* function registered for n, once, and returns what that run built: each
\* such call adds one to the number of arrow function runs and stores
\* nothing in the registry, so k calls are k constructions, of equal trees.
C23_ResolutionPerCall ==
    /\ []((last.op = "createRuleDiagram" /\ MapHas(rules[last.edition], last.name)) =>
            /\ last.invoked = <<MapGet(rules[last.edition], last.name)>>
            /\ last.outcome = Invoke(MapGet(rules[last.edition], last.name))
            /\ probe = [edition |-> last.edition, name |-> last.name] =>
                    /\ first # NoCall
                    /\ first.outcome = last.outcome)
    /\ [][(last'.op = "createRuleDiagram" /\ MapHas(rules[last'.edition], last'.name)) =>
            /\ thunkRuns' = thunkRuns + 1
            /\ Len(last'.invoked) = 1
            /\ rules' = rules]_vars

\* the second of two calls for the same rule: two runs of its arrow function
C23_SecondCallBuiltAgain ==
    /\ last.op = "createRuleDiagram"
    /\ probe = [edition |-> "ES5.1", name |-> "Program"]
    /\ last.edition = "ES5.1"
    /\ last.name = "Program"
    /\ last.invoked = <<MapGet(rules["ES5.1"], "Program")>>
    /\ thunkRuns = 2
    /\ first.outcome = last.outcome

\* C24: when a module registers a name a second time, the registry holds the
\* name once, at the place of its first registration, with the arrow
\* function of the last registration; resolving the name runs that arrow
\* function and returns what it builds.
C24_LastWriteWins ==
    "ES2025" \in loaded =>
        /\ getDiagramRuleNames = <<"Digit", "Number">>
        /\ getRuleFactory("ES2025", "Digit") = Thunk("Redefined", 3)
        /\ getRuleFactory("ES2025", "Number") = Thunk("Redefined", 2)
        /\ (last.op \in {"createRuleDiagram", "factory"} /\ last.name = "Digit") =>
                /\ last.invoked = <<Thunk("Redefined", 3)>>
                /\ last.outcome = Evaluate(BodyRedefinedDigit)
                /\ last.outcome # Evaluate(BodyMinimal("Digit"))
        /\ last.op = "getDiagramRuleNames" =>
                last.outcome = Array(<<"Digit", "Number">>)

\* Digit resolved after the module defined it twice
C24_RedefinedRuleResolved ==
    /\ last.op = "createRuleDiagram"
    /\ last.name = "Digit"
    /\ last.invoked = <<Thunk("Redefined", 3)>>
    /\ last.outcome.type = "Choice"
    /\ Len(last.outcome.items) = 4
    /\ MapKeys(rules["ES2025"]) = <<"Digit", "Number">>

\* a and b are the same but for the case of their letters and the white
\* space around them
AlikeButCaseAndSpace(a, b) ==
    LET x == Trimmed(a)
        y == Trimmed(b)
    IN
    /\ Len(x) = Len(y)
    /\ \A i \in 1..Len(x) : SameLetter(Char(x, i), Char(y, i))

\* C25: a name is found only under the very string it was registered with.
\* Statement is registered in both editions and is a key of
\* EBNF_DEFINITIONS; for a name that is like "Statement" but for letter case
\* or white space around it, getRuleFactory returns undefined,
\* createRuleDiagram returns the placeholder naming the string as passed and
\* runs no arrow function, and getEbnfDefinition returns undefined, while
\* "Statement" itself gives its arrow function, its diagram and its text;
\* the two enumerations give the names as written in the source.
C25_NamesComparedVerbatim ==
    /\ last.op \in {"getRuleFactory", "createRuleDiagram", "getEbnfDefinition"} =>
            AlikeButCaseAndSpace(last.name, "Statement")
    /\ last.op = "getRuleFactory" =>
            /\ MapHas(rules[last.edition], "Statement")
            /\ IF last.name = "Statement"
               THEN /\ last.outcome.type = "thunk"
                    /\ RuleStatements(last.edition)[last.outcome.stmt] = "Statement"
               ELSE last.outcome = Undefined
    /\ last.op = "createRuleDiagram" =>
            /\ MapHas(rules[last.edition], "Statement")
            /\ IF last.name = "Statement"
               THEN /\ last.invoked = <<MapGet(rules[last.edition], "Statement")>>
                    /\ ~IsMissingRuleDiagram(last.outcome)
               ELSE /\ last.invoked = << >>
                    /\ last.outcome = Evaluate(Diagram(<<Comment(<<
                            "No factory defined for " \o last.name>>)>>))
    /\ last.op = "getEbnfDefinition" =>
            /\ \E i \in 1..Len(ebnf) : ebnf[i].key = "Statement"
            /\ IF last.name = "Statement"
               THEN \E i \in 1..Len(ebnf) :
                        ebnf[i] = [key |-> "Statement", value |-> last.outcome]
               ELSE last.outcome = Undefined
    /\ last.op = "getDiagramRuleNames" =>
            last.outcome = Array(RuleStatementsES2025)
    /\ last.op = "getEbnfRuleNames" =>
            last.outcome = Array([i \in 1..Len(EBNF_DEFINITIONS) |->
                                    EBNF_DEFINITIONS[i].key])

\* the lower-case spelling resolved to the placeholder in an edition that
\* registers Statement
C25_LowerCaseNameMissing ==
    /\ last.op = "createRuleDiagram"
    /\ last.name = "statement"
    /\ MapHas(rules[last.edition], "Statement")
    /\ IsMissingRuleDiagram(last.outcome)
    /\ last.outcome.items[1].items[1] = "No factory defined for statement"

\* C26: in the ES2025 App a click on the header of section s flips whether s
\* is in expandedSections and leaves the membership of every other section
\* as it was, so that toggling s once more gives back the set there was;
\* Expand All makes expandedSections the set of all sections of
\* SECTION_ORDER and Collapse All makes it empty, from any set.
C26_ToggleExpandCollapse ==
    /\ [](app.mounted = "ES2025" =>
            \A s \in SectionIdES2025 :
                toggleSection(toggleSection(app.expandedSections, s), s)
                    = app.expandedSections)
    /\ [][/\ \A s \in SectionIdES2025 :
                ToggleSection(s) =>
                    /\ s \in app'.expandedSections <=> s \notin app.expandedSections
                    /\ \A t \in SectionIdES2025 \ {s} :
                          t \in app'.expandedSections <=> t \in app.expandedSections
                    /\ toggleSection(app'.expandedSections, s) = app.expandedSections
          /\ ExpandAll => app'.expandedSections = ToSet(SECTION_ORDER_ES2025)
          /\ CollapseAll => app'.expandedSections = {}]_vars

\* a set of expanded sections that only clicks on headers lead to
C26_SectionsToggled ==
    /\ app.mounted = "ES2025"
    /\ app.query = ""
    /\ app.expandedSections = {"expressions", "modules"}

\* the element <main> holds for the section at place i of SECTION_ORDER
Rendered(i) == Main[i] # Null

\* C27: in the ES2025 App, while the trimmed query is not empty, a section
\* is rendered exactly when some name of its SECTION_RULES contains the
\* trimmed query, letters compared regardless of case, and every rendered
\* section is expanded and shows its rule list, whatever expandedSections
\* holds; while the trimmed query is empty every section is rendered, and it
\* is expanded, showing its rule list, exactly when it is in
\* expandedSections.
C27_RenderedAndExpanded ==
    app.mounted = "ES2025" =>
        /\ Len(Main) = Len(SECTION_ORDER_ES2025)
        /\ \A i \in 1..Len(SECTION_ORDER_ES2025) :
            LET s == SECTION_ORDER_ES2025[i]
                names == ObjectGet(SECTION_RULES_ES2025, s)
            IN
            IF Trimmed(app.query) # ""
            THEN /\ Rendered(i) <=>
                        \E k \in 1..Len(names) :
                            ContainsIgnoringCase(names[k], Trimmed(app.query))
                 /\ Rendered(i) =>
                        /\ Main[i].id = s
                        /\ Main[i].expanded
                        /\ Main[i].content # Null
            ELSE /\ Rendered(i)
                 /\ Main[i].id = s
                 /\ Main[i].expanded <=> s \in app.expandedSections
                 /\ Main[i].content # Null <=> s \in app.expandedSections

\* a filter that matches in some sections only, typed while the matching
\* section statements is not in expandedSections
C27_FilteredSectionsExpanded ==
    /\ app.mounted = "ES2025"
    /\ app.query = " Stat\t"
    /\ "statements" \notin app.expandedSections
    /\ "statements" \in Headers
    /\ \E i \in 1..Len(Main) : ~Rendered(i)
    /\ \E i \in 1..Len(Main) : Rendered(i) /\ Main[i].id = "statements" /\ Main[i].expanded

\* C28: in the ES2025 App, while a filter is active (trimmed query not
\* empty), a click on a section header, on Expand All or on Collapse All
\* changes nothing of what <main> shows (the clicked section was and stays
\* expanded), yet the click on the header flips the section's membership in
\* expandedSections and the two buttons set it; typing in the filter input
\* never changes expandedSections; and at the step that clears the filter
\* every section becomes expanded exactly if it is in expandedSections as
\* the clicks made during filtering left it.
C28_ClicksWhileFilteringDeferred ==
    [][/\ \A s \in SectionIdES2025 :
            (hasFilterQuery /\ ToggleSection(s)) =>
                /\ Main' = Main
                /\ isExpanded(s)
                /\ isExpanded(s)'
                /\ s \in app'.expandedSections <=> s \notin app.expandedSections
       /\ (hasFilterQuery /\ ExpandAll) =>
                /\ Main' = Main
                /\ app'.expandedSections = SectionIdES2025
       /\ (hasFilterQuery /\ CollapseAll) =>
                /\ Main' = Main
                /\ app'.expandedSections = {}
       /\ (app.mounted = "ES2025" /\ app'.query # app.query) =>
                app'.expandedSections = app.expandedSections
       /\ (app.mounted = "ES2025" /\ hasFilterQuery /\ ~hasFilterQuery') =>
                \A s \in SectionIdES2025 :
                    isExpanded(s)' <=> s \in app.expandedSections]_vars

\* a filter is active and its matching section expressions is shown
\* expanded although a click on its header has taken it out of
\* expandedSections, where all the other sections are
C28_ExpandedThoughToggledOff ==
    /\ app.mounted = "ES2025"
    /\ app.query = "EXPRESSION"
    /\ "expressions" \in Headers
    /\ isExpanded("expressions")
    /\ app.expandedSections = SectionIdES2025 \ {"expressions"}

\* C29: every name a rule body of an edition refers to (the s of NT(s), the
\* base of chain(base, ops)) is registered in that edition, so resolving a
\* referenced name never gives the missing-rule placeholder.
C29_ReferencesRegistered ==
    (probe.edition \in loaded /\ MapHas(rules[probe.edition], probe.name)) =>
        \A n \in References(Body(probe.edition, probe.name)) :
            /\ MapHas(rules[probe.edition], n)
            /\ ~IsMissingRuleDiagram(createRuleDiagram(probe.edition, n).outcome)

\* C30: the rules.set statements of an edition's module name pairwise
\* different rules, so each statement adds an entry to the registry and none
\* replaces one: the registry has as many entries as the module has
\* rules.set statements, entry i being the name and the arrow function of
\* statement i; the keys of EBNF_DEFINITIONS are pairwise different too.
C30_NoNameRegisteredTwice ==
    /\ \A e \in Editions :
          e \in loaded =>
              /\ Cardinality(ToSet(RuleStatements(e))) = Len(RuleStatements(e))
              /\ Len(rules[e]) = Len(RuleStatements(e))
              /\ \A i \in 1..Len(rules[e]) :
                    rules[e][i] = [key |-> RuleStatements(e)[i], value |-> Thunk(e, i)]
    /\ "EBNF" \in loaded =>
          /\ Len(ebnf) = Len(EBNF_DEFINITIONS)
          /\ Cardinality(ToSet(getEbnfRuleNames)) = Len(ebnf)

\* the three modules evaluated and the rules of ES2025 enumerated
C30_AllTablesLoaded ==
    /\ loaded = Modules
    /\ Len(rules["ES2025"]) = 261
    /\ Len(rules["ES5.1"]) = 144
    /\ Len(ebnf) = 261
    /\ last.op = "getDiagramRuleNames"
    /\ Len(last.outcome.items) = 261
====
